---- MODULE Spec2Model ----
(***************************************************************************)
(* LoRaGPSTracker: the beacon's LoRa protocol engine (beacon/lora.py,      *)
(* class LoRaModule) with its two worker threads, and the tracker's        *)
(* receiver (tracker/lora.py, class LoRaReceiver).                         *)
(*                                                                         *)
(* Time is abstracted: a sleep or a timeout is a step that may be taken at *)
(* any moment; `now' is int(time.time()).  A packet that reaches the radio *)
(* is drawn with \E in the step of the worker that reads it.               *)
(***************************************************************************)
EXTENDS Integers, Sequences, FiniteSets, TLC

VARIABLES
    connected,          \* LoRaModule.connected (self.lora is set while TRUE)
    stop_event,         \* LoRaModule.stop_event
    rx_pc,              \* receive worker: "off" | "run" | "errsleep"
    tx_pc,              \* TX worker: "off" | "get" | "attempt" | "txpoll" | "ackwait"
                        \*            | "backoff" | "result" | "ratelimit" | "errsleep"
                        \* (of the oldest TX worker thread that is alive)
    tx_threads,         \* TX worker threads that are alive
    stop_ret,           \* stop(): "none" | "joining" | "stopped" (what it reported)
    tx_queue,           \* LoRaModule.tx_queue
    rx_queue,           \* LoRaModule.rx_queue
    message_callbacks,  \* LoRaModule.message_callbacks (its keys)
    ack_events,         \* LoRaModule.ack_events: id -> is_set()
    message_id_counter, \* LoRaModule.message_id_counter
    now,                \* int(time.time())
    stats,              \* LoRaModule.stats (the four packet counters)
    cur,                \* _tx_worker: message
    success,            \* _tx_worker: success
    retries,            \* _tx_worker: retries
    radio_tx,           \* the radio's transmitter: "idle" | "busy" | "done"
    handled,            \* handler threads started so far, per sender of the message
    calls,              \* send_message calls under way, per calling thread: the
                        \* message whose id was made at line 200, or NullMsg
    send_ret,           \* what the last send_message call returned: "none" | "id"
    arrivals,           \* packets read from the radio so far
    tx_count,           \* setTx calls made for cur
    ack_waits,          \* ack waits begun for cur
    stats_at_get,       \* <<tx_packets, tx_errors>> when cur was taken off the queue
    air,                \* packets on their way from the beacon to the tracker
    trk_rx_queue,       \* LoRaReceiver.rx_queue
    trk_stats,          \* LoRaReceiver.stats (rx_packets, rx_errors)
    trk_seen,           \* ids of the beacon messages the tracker's radio received
    encryption_key,     \* LORA_ENCRYPTION_KEY as bytes, the same at both ends
    wire_msg,           \* the message dict given to _transmit_message
    payload,            \* the payload _transmit_message gave the radio
    decoded,            \* what the beacon's _process_packet parsed the payload to
    trk_decoded,        \* what the tracker's _process_packet returned for it
    gps_is_connected,   \* GPSModule.is_connected
    gps_is_running,     \* GPSModule.is_running
    gps_pc,             \* _read_gps_data: "off" | "read" | "status" | "update" | "errsleep"
    data_lock,          \* GPSModule.data_lock: "free" | "gps" (held by the reading thread)
    gps_data,           \* GPSModule.gps_data (hdop and pdop in tenths)
    require_3d_fix,     \* GPSModule.require_3d_fix
    gga_nonzero,        \* a GGA sentence has reported a satellite count other than 0
    wait_pc,            \* wait_for_fix: "idle" | "test" | "hasfix"
    wait_ret,           \* what the last wait_for_fix call returned: "none" | "true" | "false"
    wait_polls,         \* has_fix() polls of the wait_for_fix call under way
    nmea_sent,          \* the line as the receiver sent it
    nmea_sentence,      \* the line given to _is_valid_nmea
    nmea_valid,         \* what _is_valid_nmea returned for it: "none" | "true" | "false"
    tracker_position,   \* NavigationCalculator.tracker_position
    beacon_position,    \* NavigationCalculator.beacon_position
    distance_history,   \* NavigationCalculator.distance_history
    bearing_history,    \* NavigationCalculator.bearing_history
    nav_time,           \* time.time() as the navigation calculator reads it
    nav_samples,        \* every sample appended to the histories so far
    bearing_trend,      \* what _calculate_bearing_trend returned
    packet_args,        \* (latitude, longitude, timestamp) given to encode_minimal_packet
    packet_bytes,       \* the packet it returned
    packet_decoded      \* what decode_minimal_packet returned for that packet

engine_vars == <<connected, stop_event, rx_pc, tx_pc, tx_threads, stop_ret, tx_queue, rx_queue,
                 message_callbacks, ack_events, message_id_counter, now, stats,
                 cur, success, retries, radio_tx, handled, send_ret, calls, arrivals,
                 tx_count, ack_waits, stats_at_get>>
tracker_vars == <<air, trk_rx_queue, trk_stats, trk_seen>>
codec_vars == <<encryption_key, wire_msg, payload, decoded, trk_decoded>>
gps_vars == <<gps_is_connected, gps_is_running, gps_pc, data_lock, gps_data, require_3d_fix,
              gga_nonzero, wait_pc, wait_ret, wait_polls>>
nmea_vars == <<nmea_sent, nmea_sentence, nmea_valid>>
nav_vars == <<tracker_position, beacon_position, distance_history, bearing_history, nav_time,
              nav_samples>>
trend_vars == <<bearing_trend>>
packet_vars == <<packet_args, packet_bytes, packet_decoded>>
app_vars == <<gps_vars, nmea_vars, nav_vars, trend_vars, packet_vars>>
vars == <<engine_vars, tracker_vars, codec_vars, app_vars>>

---------------------------------------------------------------------------
(* Bounds of the model *)

\* LORA_MESSAGE_QUEUE_SIZE is 20 in beacon/config.py:77 and tracker/config.py:67;
\* the model runs the same code with a shorter queue.
LORA_MESSAGE_QUEUE_SIZE == 2
\* send_message calls and packets read from the radio, under Spec
MaxSends == 2
MaxArrivals == 2
\* TX worker threads alive at once, under Spec
MaxTxThreads == 2
\* seconds that pass and send_message calls that make an id, under SpecIds
MaxClock == 1
IdMaxSends == 3
\* send_message calls under SpecStop
StopMaxSends == 2
\* bytes of an AES block (16 in the code) and of a message's data, under SpecCodec
AES_block_size == 2
MaxData == 2
\* send_message calls and packets read from the radio, under SpecFault
FaultMaxSends == 1
FaultMaxArrivals == 2
\* the same under SpecRx
RxMaxSends == 1
RxMaxArrivals == 2
\* packets read from the radio under SpecDrop
DropMaxArrivals == 3
\* has_fix() polls of one wait_for_fix call before its timeout has passed
MaxPolls == 2
\* characters of a line and digits of the checksum's radix (16 in the code),
\* under SpecNmea
MaxLine == 5
HexRadix == 3
\* max_history_size is 20 in tracker/navigation.py:40; the model runs the same
\* code with shorter histories, on MaxPosition + 1 positions, with at most
\* MaxUpdates samples and a clock that reaches MaxNavTime, under SpecNav
max_history_size == 2
MaxPosition == 1
MaxUpdates == 4
MaxNavTime == 3
\* bits of a float's significand (53 in the code), and time.time() of a
\* history's first sample: within MaxTrendOffset seconds of 0 or of TrendEpoch,
\* which has as many bits for the significand's as the time of day has for 53
MantissaBits == 20
TrendEpoch == 3000
MaxTrendOffset == 15
\* bits of a float's significand (53 in the code) and units of a degree the
\* packet keeps (1000000 in the code), under SpecPacket
CoordBits == 10
DecimalScale == 100

(* Program constants *)
LORA_RETRIES == 3
CounterMod == 10000
GPS_MIN_SATELLITES == 3
\* GPS_MIN_HDOP, 5.0, in tenths
GPS_MIN_HDOP == 50
\* the shortest line _is_valid_nmea accepts
MinSentence == 5
\* struct format '<iii': three integers of 4 bytes, 12 bytes
BytesPerInt == 4
PacketLength == 12

TRACKER_ID == "TRACKER01"
SERVER_ID == "SERVER"
Broadcast == "broadcast"
\* another node's id, and a second sender
OtherNode == "NODE2"

---------------------------------------------------------------------------
(* Messages *)

NoId == <<>>
NullMsg == [id |-> NoId, src |-> "", dst |-> "", type |-> "", ack_req |-> FALSE,
            ack_id |-> NoId]

\* f"{TRACKER_ID}_{int(time.time())}_{self.message_id_counter}"
MessageId(t, n) == <<TRACKER_ID, t, n>>
\* f"ack_{TRACKER_ID}_{int(time.time())}"
AckMessageId(t) == <<"ack", TRACKER_ID, t>>
\* the ids other nodes give their messages
RemoteId(s) == <<s, 0, 0>>
UnknownId == <<"nobody", 0, 0>>
Senders == {SERVER_ID, OtherNode}
\* the threads that call send_message
Callers == {"main", "handler"}

\* the message dict built by send_message
NewMessage(id, destination, message_type, require_ack) ==
    [id |-> id, src |-> TRACKER_ID, dst |-> destination, type |-> message_type,
     ack_req |-> require_ack, ack_id |-> NoId]
\* an ack that is addressed like the message it answers and asks for an ack
\* itself (_send_ack writes neither)
AckToDestination(message, t) ==
    [id |-> AckMessageId(t), src |-> TRACKER_ID, dst |-> message.dst, type |-> "ack",
     ack_req |-> TRUE, ack_id |-> message.id]

\* the ack_message dict built by _send_ack
AckFor(message, t) ==
    [id |-> AckMessageId(t), src |-> TRACKER_ID, dst |-> message.src, type |-> "ack",
     ack_req |-> FALSE, ack_id |-> message.id]

(* Packets as the radio delivers them.  form: "enc" is base64(IV + AES-CBC) *)
(* under the shared key, "plain" is text that base64.b64decode rejects,     *)
(* "plainb64" is text that base64.b64decode accepts.  json: what json.loads *)
(* makes of the text: "object" (a dict, msg), "nondict" (a number, a list,  *)
(* null), "invalid" (no JSON), and "badutf8" for bytes that are no UTF-8.   *)
Packet(form, json, msg) == [form |-> form, json |-> json, msg |-> msg]

\* what other nodes send: commands for this node, for broadcast and for another
\* node, with and without a request for an ack
InboundCommands ==
    {[id |-> RemoteId(k[1]), src |-> k[1], dst |-> k[2], type |-> "command",
      ack_req |-> k[3], ack_id |-> NoId] :
        k \in {<<SERVER_ID, TRACKER_ID, TRUE>>, <<OtherNode, Broadcast, TRUE>>,
               <<SERVER_ID, TRACKER_ID, FALSE>>, <<SERVER_ID, OtherNode, TRUE>>}}

\* and acks, naming a pending id or an id nobody waits for
InboundAcks ==
    {[id |-> RemoteId(SERVER_ID), src |-> SERVER_ID, dst |-> k[1], type |-> "ack",
      ack_req |-> k[2], ack_id |-> a] :
        k \in {<<TRACKER_ID, FALSE>>, <<Broadcast, TRUE>>, <<OtherNode, FALSE>>},
        a \in (DOMAIN ack_events) \cup {UnknownId}}

\* packets that carry no message
JunkPackets ==
    {Packet(f, j, NullMsg) : f \in {"enc", "plain"}, j \in {"nondict", "invalid"}}
    \cup {Packet("plain", "badutf8", NullMsg)}

PacketsOf(messages) ==
    {Packet(f, "object", m) : f \in {"enc", "plain", "plainb64"}, m \in messages}

AckPackets == PacketsOf(InboundAcks) \cup JunkPackets
InboundPackets == PacketsOf(InboundCommands \cup InboundAcks) \cup JunkPackets

---------------------------------------------------------------------------
(* Pure helpers *)

QueueFull(q) == Len(q) >= LORA_MESSAGE_QUEUE_SIZE

\* a put that does not look at the capacity of the queue
PutAlways(q, item) == Append(q, item)

\* queue.Queue.put(item, block=False): the queue, unchanged on queue.Full
PutNoWait(q, item) == IF QueueFull(q) THEN q ELSE Append(q, item)

\* self.ack_events[id].is_set(), for an id the table holds
IsSet(id) == id \in DOMAIN ack_events /\ ack_events[id]

\* self.ack_events[id].set()
SetEvent(id) == [ack_events EXCEPT ![id] = TRUE]

\* _process_packet lines 466-478: the text handed to json.loads and what it parses to
DecodedJson(p) ==
    CASE p.form = "enc" -> p.json
      [] p.form = "plain" -> p.json
      [] OTHER -> "invalid"

\* _tx_worker lines 362-366: json.loads of the characters read from the radio
RawJson(p) ==
    IF p.form = "enc" \/ p.json = "badutf8" THEN "invalid" ELSE p.json

AddStat(key) == [stats EXCEPT ![key] = @ + 1]

---------------------------------------------------------------------------
(* The codec.  Bytes have two bits and the AES block is AES_block_size     *)
(* bytes long (16 in Crypto.Cipher.AES); text is a sequence of characters, *)
(* written as the bytes of its UTF-8 encoding.                             *)

Byte == 0..3
\* the bytes that are one character of UTF-8 on their own; 3 is no UTF-8
Ascii == 0..2
\* the key lengths AES takes: 16, 24 and 32 bytes, scaled by the block size
AESKeyLengths == {AES_block_size, AES_block_size + 1, AES_block_size + 2}
\* LORA_ENCRYPTION_KEY.encode('utf-8'): the empty key switches encryption off
Keys == UNION {[1..n -> 0..1] : n \in 0..(AES_block_size + 2)}
\* cipher.iv, drawn at random by AES.new(key, AES.MODE_CBC)
IVs == [1..AES_block_size -> Byte]
\* the "data" of a message, already as JSON text
CodecData == UNION {[1..n -> 0..1] : n \in 0..MaxData}
\* the message dicts handed to _transmit_message (of the fields send_message
\* writes, those that vary here)
CodecMessages == [type : {"position", "heartbeat"}, ack_req : BOOLEAN, data : CodecData]

\* no payload yet, and an operation that raised (neither is a byte sequence)
NoPayload == <<-1>>
Failed == <<-2>>
\* not decoded yet, json.JSONDecodeError, and Python's None
Pending == [pending |-> TRUE]
InvalidJson == [invalid |-> TRUE]
None == [none |-> TRUE]
\* LORA_ENCRYPTION_KEY of beacon/config.py:76 and tracker/config.py:66, one block long
DefaultKey == [i \in 1..AES_block_size |-> i % 2]

RECURSIVE SumSeq(_)
SumSeq(s) == IF s = <<>> THEN 0 ELSE Head(s) + SumSeq(Tail(s))

\* s[:n] and s[n:] of Python
Take(s, n) == SubSeq(s, 1, IF n < Len(s) THEN n ELSE Len(s))
Drop(s, n) == SubSeq(s, (IF n < Len(s) THEN n ELSE Len(s)) + 1, Len(s))

\* json.dumps(message)
Dumps(m) ==
    <<IF m.type = "position" THEN 0 ELSE 1, IF m.ack_req THEN 1 ELSE 0>> \o m.data

\* json.loads(text): the message, or InvalidJson for json.JSONDecodeError
Loads(text) ==
    IF Len(text) >= 2 /\ \A i \in 1..Len(text) : text[i] \in 0..1
    THEN [type |-> IF text[1] = 0 THEN "position" ELSE "heartbeat",
          ack_req |-> text[2] = 1,
          data |-> Drop(text, 2)]
    ELSE InvalidJson

\* base64.b64encode(data).decode('ascii'): each byte becomes two characters
RECURSIVE b64encode(_)
b64encode(data) ==
    IF data = <<>> THEN <<>>
    ELSE <<Head(data) \div 2, Head(data) % 2>> \o b64encode(Tail(data))

RECURSIVE B64Bytes(_)
B64Bytes(text) ==
    IF text = <<>> THEN <<>>
    ELSE <<2 * text[1] + text[2]>> \o B64Bytes(Drop(text, 2))

\* base64.b64decode(text): characters outside the alphabet are discarded, and
\* what is left must have a whole number of groups (binascii.Error otherwise)
b64decode(text) ==
    LET kept == SelectSeq(text, LAMBDA c : c \in 0..1)
    IN  IF Len(kept) % 2 = 0 THEN B64Bytes(kept) ELSE Failed

\* bytes.decode('utf-8'), and with errors='ignore'
IsUtf8(data) == \A i \in 1..Len(data) : data[i] \in Ascii
DecodeIgnore(data) == SelectSeq(data, LAMBDA b : b \in Ascii)

\* Crypto.Util.Padding.pad(data, AES.block_size), PKCS7
pad(data) ==
    LET n == AES_block_size - (Len(data) % AES_block_size)
    IN  data \o [i \in 1..n |-> n]

\* Crypto.Util.Padding.unpad(data, AES.block_size): Failed for ValueError
unpad(data) ==
    IF data = <<>> \/ Len(data) % AES_block_size # 0 THEN Failed
    ELSE LET n == data[Len(data)]
         IN  IF /\ n \in 1..AES_block_size
                /\ \A i \in (Len(data) - n + 1)..Len(data) : data[i] = n
             THEN Take(data, Len(data) - n)
             ELSE Failed

\* the bitwise exclusive or of two bytes
XorByte(a, b) == 2 * (((a \div 2) + (b \div 2)) % 2) + ((a + b) % 2)
Xor(x, y) == [i \in 1..AES_block_size |-> XorByte(x[i], y[i])]

\* AES on one block: a permutation of the blocks that the key selects
RoundKey(key, i) == (SumSeq(key) + Len(key) + i) % 4
EncryptBlock(key, block) ==
    [i \in 1..AES_block_size |-> (block[(i % AES_block_size) + 1] + RoundKey(key, i)) % 4]
DecryptBlock(key, block) ==
    [i \in 1..AES_block_size |->
        LET j == IF i = 1 THEN AES_block_size ELSE i - 1
        IN  (block[j] + 4 - RoundKey(key, j)) % 4]

\* AES.new(key, AES.MODE_CBC, iv).encrypt(data), data a whole number of blocks
RECURSIVE CbcEncrypt(_, _, _)
CbcEncrypt(key, iv, data) ==
    IF data = <<>> THEN <<>>
    ELSE LET c == EncryptBlock(key, Xor(Take(data, AES_block_size), iv))
         IN  c \o CbcEncrypt(key, c, Drop(data, AES_block_size))

\* AES.new(key, AES.MODE_CBC, iv).decrypt(data)
RECURSIVE CbcBlocks(_, _, _)
CbcBlocks(key, iv, data) ==
    IF data = <<>> THEN <<>>
    ELSE LET c == Take(data, AES_block_size)
         IN  Xor(DecryptBlock(key, c), iv) \o CbcBlocks(key, c, Drop(data, AES_block_size))

\* AES.new(key, AES.MODE_ECB).decrypt(data)
RECURSIVE EcbBlocks(_, _)
EcbBlocks(key, data) ==
    IF data = <<>> THEN <<>>
    ELSE DecryptBlock(key, Take(data, AES_block_size))
         \o EcbBlocks(key, Drop(data, AES_block_size))

\* ValueError of decrypt for data that is no whole number of blocks, and of
\* AES.new for an IV that is not one block long
CbcDecrypt(key, iv, data) ==
    IF Len(iv) # AES_block_size \/ Len(data) % AES_block_size # 0
    THEN Failed ELSE CbcBlocks(key, iv, data)
EcbDecrypt(key, data) ==
    IF Len(data) % AES_block_size # 0 THEN Failed ELSE EcbBlocks(key, data)

\* key[:16].ljust(16, b'\0')
FirstBlockOf(key) == [i \in 1..AES_block_size |-> IF i <= Len(key) THEN key[i] ELSE 0]

\* LoRaModule._encrypt and _decrypt, lines 554-558 and 589-593
KeyBytes(key) == IF Len(key) \in AESKeyLengths THEN key ELSE FirstBlockOf(key)

\* LoRaModule._encrypt with the IV that AES.new drew: IV + ciphertext
Encrypt(key, data, iv) == iv \o CbcEncrypt(KeyBytes(key), iv, pad(data))

\* a _decrypt that takes the whole input for ciphertext, with an IV of zeros
DecryptWithoutIv(key, data) ==
    LET plain == CbcDecrypt(KeyBytes(key), [i \in 1..AES_block_size |-> 0], data)
        text == IF plain = Failed THEN Failed ELSE unpad(plain)
    IN  IF text = Failed \/ ~IsUtf8(text) THEN DecodeIgnore(data) ELSE text

\* LoRaModule._decrypt: the text, or the input with errors='ignore' when
\* anything raised
Decrypt(key, data) ==
    LET plain == CbcDecrypt(KeyBytes(key), Take(data, AES_block_size),
                            Drop(data, AES_block_size))
        text == IF plain = Failed THEN Failed ELSE unpad(plain)
    IN  IF text = Failed \/ ~IsUtf8(text) THEN DecodeIgnore(data) ELSE text

\* LoRaModule._transmit_message lines 416-426: the payload given to the radio
TransmitPayload(key, message, iv) ==
    IF key # <<>> THEN b64encode(Encrypt(key, Dumps(message), iv)) ELSE Dumps(message)

\* LoRaModule._process_packet lines 465-478: the message json.loads returns
ProcessPayload(key, text) ==
    LET data == IF key # <<>> THEN b64decode(text) ELSE Failed
    IN  Loads(IF data = Failed THEN text ELSE Decrypt(key, data))

\* LoRaReceiver._decrypt: AES-ECB under the first 16 bytes of the key on the
\* bytes as received, unpadded when the padding is right; the input when
\* decrypt raised
TrackerDecrypt(key, data) ==
    IF key = <<>> THEN data
    ELSE LET plain == EcbDecrypt(FirstBlockOf(key), data)
         IN  IF plain = Failed THEN data
             ELSE IF unpad(plain) # Failed THEN unpad(plain) ELSE plain

\* PacketParser.decode_minimal_packet takes 12 bytes, three quarters of a block
MinimalPacketLen == AES_block_size - 1

\* LoRaReceiver._process_packet: the JSON message, else the position of a
\* minimal binary packet, else None
TrackerProcess(data) ==
    IF IsUtf8(data) /\ Loads(data) # InvalidJson THEN Loads(data)
    ELSE IF Len(data) = MinimalPacketLen THEN [binary_format |-> TRUE, packet |-> data]
    ELSE None

---------------------------------------------------------------------------
(* The GPS module, beacon/gps.py, class GPSModule.  A field of an NMEA     *)
(* sentence is a sequence of characters: the digits 0..9 and the letters   *)
(* of Letter.  parts[0], the sentence type, is a string.                   *)

Letter == [x |-> 10, N |-> 11, S |-> 12, E |-> 13, W |-> 14, M |-> 15, A |-> 16, V |-> 17]

\* what int(text) and float(text) raise for text that is no number
ValueError == -1
\* gps_data['time'] and gps_data['date'] before any sentence set them (None)
NoText == <<-1>>

\* parts[i] of Python, i counted from 0
Part(parts, i) == parts[i + 1]

IsDigits(text) == text # <<>> /\ \A i \in 1..Len(text) : text[i] \in 0..9

RECURSIVE Decimal(_)
Decimal(text) ==
    IF text = <<>> THEN 0
    ELSE 10 * Decimal(SubSeq(text, 1, Len(text) - 1)) + text[Len(text)]

\* int(text), float(text)
ToNumber(text) == IF IsDigits(text) THEN Decimal(text) ELSE ValueError

\* a numeric field that is written as 0 when its text is no number
ParseFieldZero(prev, text) ==
    IF text = <<>> THEN prev
    ELSE IF ToNumber(text) = ValueError THEN 0 ELSE ToNumber(text)

\* if parts[i]: try: gps_data[k] = int(parts[i]) except ValueError: pass
ParseField(prev, text) ==
    IF text = <<>> THEN prev
    ELSE IF ToNumber(text) = ValueError THEN prev ELSE ToNumber(text)

\* if parts[i]: try: gps_data[k] = float(parts[i]) except ValueError: pass,
\* for the dilutions of precision, which the model keeps in tenths
ParseTenths(prev, text) ==
    IF text = <<>> THEN prev
    ELSE IF ToNumber(text) = ValueError THEN prev ELSE 10 * ToNumber(text)

\* the same for a field that is None at first (altitude, speed, course)
ParseOptional(prev, text) ==
    IF text = <<>> \/ ToNumber(text) = ValueError THEN prev ELSE [value |-> ToNumber(text)]

\* lines 450-472 and 529-551: DDMM.MMMM or DDDMM.MMMM with its hemisphere; n is
\* the number of degree digits, south and west are negative
ParseCoordinate(prev, text, hemisphere, n, negative) ==
    IF text = <<>> \/ hemisphere = <<>> THEN prev
    ELSE LET deg == ToNumber(Take(text, n))
             min == ToNumber(Drop(text, n))
         IN  IF deg = ValueError \/ min = ValueError THEN prev
             ELSE [deg |-> deg, min |-> min, negative |-> hemisphere = <<negative>>]

\* GPSModule._parse_gpgga
ParseGpgga(d, parts) ==
    IF Len(parts) < 15 THEN d
    ELSE [d EXCEPT
            !.time = IF Part(parts, 1) # <<>> THEN Part(parts, 1) ELSE @,
            !.latitude = ParseCoordinate(@, Part(parts, 2), Part(parts, 3), 2, Letter.S),
            !.longitude = ParseCoordinate(@, Part(parts, 4), Part(parts, 5), 3, Letter.W),
            !.fix_quality = ParseField(@, Part(parts, 6)),
            !.satellites = ParseField(@, Part(parts, 7)),
            !.hdop = ParseTenths(@, Part(parts, 8)),
            !.altitude = IF Part(parts, 10) = <<Letter.M>>
                         THEN ParseOptional(@, Part(parts, 9)) ELSE @]

\* the fields _parse_gprmc writes when the status is 'A' (lines 528-566)
RmcPosition(d, parts) ==
    [d EXCEPT
        !.latitude = ParseCoordinate(@, Part(parts, 3), Part(parts, 4), 2, Letter.S),
        !.longitude = ParseCoordinate(@, Part(parts, 5), Part(parts, 6), 3, Letter.W),
        !.speed = IF Part(parts, 7) = <<>> \/ ToNumber(Part(parts, 7)) = ValueError
                  THEN @ ELSE [value |-> ToNumber(Part(parts, 7)) * 1852],
        !.course = ParseOptional(@, Part(parts, 8))]

\* time and date of an RMC sentence (lines 516-525)
RmcClock(d, parts) ==
    [d EXCEPT
        !.time = IF Part(parts, 1) # <<>> THEN Part(parts, 1) ELSE @,
        !.date = IF Part(parts, 9) # <<>> THEN Part(parts, 9) ELSE @]

\* a _parse_gprmc that does not look at the status field
ParseGprmcAnyStatus(d, parts) ==
    IF Len(parts) < 12 THEN d ELSE RmcPosition(RmcClock(d, parts), parts)

\* GPSModule._parse_gprmc
ParseGprmc(d, parts) ==
    IF Len(parts) < 12 THEN d
    ELSE IF Part(parts, 2) = <<Letter.A>>
         THEN RmcPosition(RmcClock(d, parts), parts)
         ELSE RmcClock(d, parts)

\* GPSModule._parse_gpgsv: the count is written only when the stored one is 0
ParseGpgsv(d, parts) ==
    IF Len(parts) < 4 THEN d
    ELSE IF ToNumber(Part(parts, 3)) = ValueError THEN d
    ELSE IF d.satellites = 0 THEN [d EXCEPT !.satellites = ToNumber(Part(parts, 3))]
    ELSE d

\* GPSModule._parse_gpgsa
ParseGpgsa(d, parts) ==
    IF Len(parts) < 18 THEN d
    ELSE [d EXCEPT
            !.fix_type = ParseField(@, Part(parts, 2)),
            !.pdop = ParseTenths(@, Part(parts, 15)),
            !.hdop = ParseTenths(@, Part(parts, 16))]

\* GPSModule._parse_nmea on the parts of a sentence
ParseNmea(d, parts) ==
    CASE Part(parts, 0) = "GPGGA" -> ParseGpgga(d, parts)
      [] Part(parts, 0) = "GPRMC" -> ParseGprmc(d, parts)
      [] Part(parts, 0) = "GPGSV" -> ParseGpgsv(d, parts)
      [] Part(parts, 0) = "GPGSA" -> ParseGpgsa(d, parts)
      [] OTHER -> d

\* GPSModule.has_fix on the data d
HasFix(d, need_3d) ==
    IF d.latitude = None \/ d.longitude = None THEN FALSE
    ELSE IF d.satellites < GPS_MIN_SATELLITES THEN FALSE
    ELSE IF d.hdop > GPS_MIN_HDOP THEN FALSE
    ELSE IF need_3d /\ d.fix_type < 3 THEN FALSE
    ELSE TRUE

\* the reason _update_gps_status logs for data without a fix (lines 642-650)
Reason(d, need_3d) ==
    IF d.latitude = None THEN "No position data"
    ELSE IF d.satellites < GPS_MIN_SATELLITES THEN "Too few satellites"
    ELSE IF d.hdop > GPS_MIN_HDOP THEN "HDOP too high"
    ELSE IF need_3d /\ d.fix_type < 3 THEN "No 3D fix"
    ELSE "Unknown"

(* The sentences the receiver sends *)
OkLatitude == <<4, 8, 0, 7>>
OkLongitude == <<0, 1, 1, 3, 1>>
NoNumber == <<Letter.x>>
Text1 == <<1, 2>>
Text2 == <<3, 4>>

\* $GPGGA,time,latitude,N/S,longitude,E/W,fix,satellites,hdop,altitude,M,...
Gga(lat, lon, fix, sats, hdop, alt) ==
    <<"GPGGA", Text2, lat, <<Letter.N>>, lon, <<Letter.E>>, fix, sats, hdop, alt,
      <<Letter.M>>, <<>>, <<Letter.M>>, <<>>, <<>>>>

\* GGA sentences whose fields are all numbers, and one for each field that is not
GgaSentences ==
    {Gga(OkLatitude, OkLongitude, <<1>>, sats, hdop, <<3, 0>>) :
        sats \in {<<0>>, <<2>>, <<5>>}, hdop \in {<<1>>, <<9>>}}
    \cup {Gga(<<4, 8, Letter.x>>, OkLongitude, <<1>>, <<5>>, <<1>>, <<3, 0>>),
          Gga(OkLatitude, NoNumber, <<1>>, <<5>>, <<1>>, <<3, 0>>),
          Gga(OkLatitude, OkLongitude, NoNumber, <<5>>, <<1>>, <<3, 0>>),
          Gga(OkLatitude, OkLongitude, <<1>>, NoNumber, <<1>>, <<3, 0>>),
          Gga(OkLatitude, OkLongitude, <<1>>, <<5>>, NoNumber, <<3, 0>>),
          Gga(OkLatitude, OkLongitude, <<1>>, <<5>>, <<1>>, NoNumber)}

\* $GPRMC,time,status,latitude,N/S,longitude,E/W,speed,course,date,...
Rmc(time, status, lat, speed, course) ==
    <<"GPRMC", time, status, lat, <<Letter.S>>, OkLongitude, <<Letter.W>>, speed,
      course, Text1, <<>>, <<>>>>

RmcSentences ==
    {Rmc(time, status, f[1], f[2], f[3]) :
        time \in {<<>>, Text1},
        status \in {<<Letter.A>>, <<Letter.V>>},
        f \in {<<OkLatitude, <<7>>, <<9, 0>>>>,
               <<<<4, 8>>, <<7>>, <<9, 0>>>>,
               <<OkLatitude, NoNumber, <<9, 0>>>>,
               <<OkLatitude, <<7>>, NoNumber>>}}

\* $GPGSV,total_msgs,msg_num,total_sats,...
GsvSentences ==
    {<<"GPGSV", <<1>>, <<1>>, sats>> : sats \in {<<0>>, <<8>>, NoNumber}}
    \cup {<<"GPGSV", <<1>>, <<1>>>>}

\* $GPGSA,mode,fix_type,[sat_id,...],pdop,hdop,vdop
Gsa(fix, pdop, hdop) ==
    <<"GPGSA", <<Letter.A>>, fix, <<>>, <<>>, <<>>, <<>>, <<>>, <<>>, <<>>, <<>>, <<>>,
      <<>>, <<>>, <<>>, pdop, hdop, <<1>>>>

GsaSentences ==
    {Gsa(<<2>>, <<3>>, <<2>>), Gsa(<<3>>, <<3>>, <<2>>), Gsa(NoNumber, <<3>>, <<2>>),
     Gsa(<<3>>, NoNumber, <<2>>), Gsa(<<3>>, <<3>>, NoNumber),
     <<"GPGSA", <<Letter.A>>, <<3>>>>}

Sentences == GgaSentences \cup RmcSentences \cup GsvSentences \cup GsaSentences

\* a short feed: a position with too few and with enough satellites
GpsFeed == {Gga(OkLatitude, OkLongitude, <<1>>, sats, <<1>>, <<3, 0>>) : sats \in {<<2>>, <<5>>}}

---------------------------------------------------------------------------
(* GPSModule._is_valid_nmea on the characters of a line.  A character is   *)
(* its ord: '$', '*', a letter, and the digits of the checksum's radix.    *)

Chr == [dollar |-> 0, star |-> 1, G |-> 2, zero |-> 3]
\* the digits int(checksum, 16) knows, each with ord = ord('0') + its value
HexDigits == Chr.zero..(Chr.zero + HexRadix - 1)
NmeaChars == 0..(Chr.zero + HexRadix - 1)
\* the lines the serial port may deliver
NmeaLines == UNION {[1..n -> NmeaChars] : n \in 0..MaxLine}

\* a ^ b on the ords of characters
RECURSIVE BitXor(_, _)
BitXor(a, b) ==
    IF a = 0 THEN b
    ELSE IF b = 0 THEN a
    ELSE ((a + b) % 2) + 2 * BitXor(a \div 2, b \div 2)

\* lines 391-393: the XOR of ord(char) over data
RECURSIVE Checksum(_)
Checksum(data) == IF data = <<>> THEN 0 ELSE BitXor(Head(data), Checksum(Tail(data)))

RECURSIVE DigitsValue(_)
DigitsValue(text) ==
    IF text = <<>> THEN 0
    ELSE HexRadix * DigitsValue(SubSeq(text, 1, Len(text) - 1)) + (text[Len(text)] - Chr.zero)

\* int(checksum, 16)
ParseInt(text) ==
    IF text # <<>> /\ \A i \in 1..Len(text) : text[i] \in HexDigits
    THEN DigitsValue(text)
    ELSE ValueError

\* the positions of '*' in the sentence
Stars(sentence) == {i \in 1..Len(sentence) : sentence[i] = Chr.star}

\* a validator that reads the checksum and does not compare it
IsValidNmeaUnchecked(sentence) ==
    IF sentence = <<>> \/ Head(sentence) # Chr.dollar THEN FALSE
    ELSE IF Len(sentence) < MinSentence THEN FALSE
    ELSE IF Stars(sentence) # {}
    THEN IF Cardinality(Stars(sentence)) # 1 THEN FALSE
         ELSE LET k == CHOOSE i \in Stars(sentence) : TRUE
              IN  ParseInt(SubSeq(sentence, k + 1, Len(sentence))) # ValueError
    ELSE TRUE

\* GPSModule._is_valid_nmea; `data, checksum = sentence.split('*')' raises
\* ValueError unless there is exactly one '*'
IsValidNmea(sentence) ==
    IF sentence = <<>> \/ Head(sentence) # Chr.dollar THEN FALSE
    ELSE IF Len(sentence) < MinSentence THEN FALSE
    ELSE IF Stars(sentence) # {}
    THEN IF Cardinality(Stars(sentence)) # 1 THEN FALSE
         ELSE LET k == CHOOSE i \in Stars(sentence) : TRUE
                  data == SubSeq(sentence, 2, k - 1)
                  checksum == SubSeq(sentence, k + 1, Len(sentence))
              IN  IF ParseInt(checksum) = ValueError THEN FALSE
                  ELSE ParseInt(checksum) = Checksum(data)
    ELSE TRUE

---------------------------------------------------------------------------
(* The tracker's navigation calculator, tracker/navigation.py.  Positions  *)
(* are points of one meridian, numbered from south to north.               *)

Positions == 0..MaxPosition

\* shared.utils.calculate_distance along the meridian
Distance(from, to) == IF from <= to THEN to - from ELSE from - to

\* shared.utils.calculate_bearing along the meridian: north is 0, south 180
Bearing(from, to) == IF to >= from THEN 0 ELSE 180

\* history[:max_history_size], the oldest samples
KeepOldest(history) ==
    IF Len(history) > max_history_size THEN SubSeq(history, 1, max_history_size)
    ELSE history

\* lines 100-104: history[-max_history_size:] when the history is too long
KeepLatest(history) ==
    IF Len(history) > max_history_size
    THEN SubSeq(history, Len(history) - max_history_size + 1, Len(history))
    ELSE history

---------------------------------------------------------------------------
(* NavigationCalculator._calculate_bearing_trend.  Python's float is a     *)
(* binary floating-point number with a 53-bit significand; the model keeps *)
(* MantissaBits bits, and whole numbers of seconds and degrees.            *)

RECURSIVE Pow2(_)
Pow2(n) == IF n = 0 THEN 1 ELSE 2 * Pow2(n - 1)

Abs(x) == IF x < 0 THEN -x ELSE x

\* the power of two that is one unit in the last place of a
RECURSIVE Ulp(_)
Ulp(a) == IF a < Pow2(MantissaBits) THEN 1 ELSE 2 * Ulp(a \div 2)

\* the float nearest to the whole number x, ties to even
Fl(x) ==
    LET a == Abs(x)
        unit == Ulp(a)
        q == a \div unit
        r == a % unit
        up == 2 * r > unit \/ (2 * r = unit /\ q % 2 = 1)
        m == (IF up THEN q + 1 ELSE q) * unit
    IN  IF x < 0 THEN -m ELSE m

\* sum(...) of floats, one rounded addition after the other
RECURSIVE FlSum(_)
FlSum(s) ==
    IF s = <<>> THEN 0
    ELSE Fl(FlSum(SubSeq(s, 1, Len(s) - 1)) + s[Len(s)])

\* lines 161-169: the points with the bearings unwrapped
RECURSIVE Unwrap(_)
Unwrap(raw_points) ==
    IF Len(raw_points) <= 1 THEN raw_points
    ELSE LET points == Unwrap(SubSeq(raw_points, 1, Len(raw_points) - 1))
             prev_bearing == points[Len(points)][2]
             b == raw_points[Len(raw_points)][2]
             diff == ((b - prev_bearing + 180) % 360) - 180
         IN  Append(points, <<raw_points[Len(raw_points)][1], Fl(prev_bearing + diff)>>)

\* lines 158 and 122: history[-5:]
LastPoints(history) ==
    IF Len(history) >= 5 THEN SubSeq(history, Len(history) - 4, Len(history)) ELSE history

\* lines 171-183: the slope of the regression line, as the float numerator
\* and denominator of the division; a denominator 0.0 raises
\* ZeroDivisionError and gives None
Slope(points) ==
    LET n == Len(points)
        sum_x == FlSum([i \in 1..n |-> points[i][1]])
        sum_y == FlSum([i \in 1..n |-> points[i][2]])
        sum_xy == FlSum([i \in 1..n |-> Fl(points[i][1] * points[i][2])])
        sum_xx == FlSum([i \in 1..n |-> Fl(points[i][1] * points[i][1])])
        num == Fl(Fl(n * sum_xy) - Fl(sum_x * sum_y))
        den == Fl(Fl(n * sum_xx) - Fl(sum_x * sum_x))
    IN  IF den = 0 THEN None ELSE [num |-> num, den |-> den]

\* NavigationCalculator._calculate_bearing_trend
CalculateBearingTrend(history) ==
    IF Len(history) < 2 THEN None ELSE Slope(Unwrap(LastPoints(history)))

\* the bearings of a history, and histories sampled every dt seconds from t0
BearingLists ==
    {<<>>, <<90>>, <<350, 340>>, <<0, 180>>, <<10, 20, 30>>, <<359, 1, 3>>, <<3, 1, 359>>,
     <<10, 20, 30, 40, 50, 60>>}
TrendTimes == (0..MaxTrendOffset) \cup (TrendEpoch..(TrendEpoch + MaxTrendOffset))
TrendHistories ==
    {[i \in 1..Len(bearings) |-> <<t0 + (i - 1) * dt, bearings[i]>>] :
        bearings \in BearingLists, t0 \in TrendTimes, dt \in 1..2}

---------------------------------------------------------------------------
(* The minimal binary packet of shared/packet_parser.py.  A coordinate is  *)
(* a float: a binary floating-point number with CoordBits significant bits *)
(* (53 in the code), kept as a whole number of units of 2^-FractionBits.   *)
(* A packed integer has BytesPerInt bytes of two bits each.                *)

FractionBits == CoordBits + 7

\* one unit in the last place of the number a, for a significand of `bits' bits
RECURSIVE UnitOf(_, _)
UnitOf(a, bits) == IF a < Pow2(bits) THEN 1 ELSE 2 * UnitOf(a \div 2, bits)

\* the multiple of a unit in the last place nearest to A / B, ties to even
RoundRatio(A, B, bits) ==
    LET a == Abs(A)
        d == B * UnitOf(a \div B, bits)
        q == a \div d
        r == a % d
        up == 2 * r > d \/ (2 * r = d /\ q % 2 = 1)
        m == (IF up THEN q + 1 ELSE q) * UnitOf(a \div B, bits)
    IN  IF A < 0 THEN -m ELSE m

\* the float of the decimal numeral with k units of 1 / DecimalScale, and the
\* float division k / 1000000.0 of lines 138-139
FloatOf(k) == RoundRatio(k * Pow2(FractionBits), DecimalScale, CoordBits)

\* the float product x * 1000000 of lines 109-110
Scaled(x) == RoundRatio(x * DecimalScale, 1, CoordBits)

\* int(x): the fraction is cut off
IntOf(x) == IF x < 0 THEN -((-x) \div Pow2(FractionBits)) ELSE x \div Pow2(FractionBits)

\* the values of a signed integer of BytesPerInt bytes
IntRange == Pow2(2 * BytesPerInt)
SignedInts == (-(IntRange \div 2))..((IntRange \div 2) - 1)

\* struct.pack('<i', n): little-endian two's complement; None for struct.error
RECURSIVE LittleEndian(_, _)
LittleEndian(u, n) == IF n = 0 THEN <<>> ELSE <<u % 4>> \o LittleEndian(u \div 4, n - 1)
PackInt(n) ==
    IF n \notin SignedInts THEN None
    ELSE LittleEndian(IF n < 0 THEN n + IntRange ELSE n, BytesPerInt)

\* struct.unpack('<i', bytes)
RECURSIVE FromLittleEndian(_)
FromLittleEndian(bytes) ==
    IF bytes = <<>> THEN 0 ELSE Head(bytes) + 4 * FromLittleEndian(Tail(bytes))
UnpackInt(bytes) ==
    LET u == FromLittleEndian(bytes)
    IN  IF u >= IntRange \div 2 THEN u - IntRange ELSE u

\* PacketParser.encode_minimal_packet; Failed is the struct.error of line 113
EncodeMinimalPacket(latitude, longitude, timestamp) ==
    LET lat_int == IntOf(Scaled(latitude))
        lon_int == IntOf(Scaled(longitude))
    IN  IF PackInt(lat_int) = None \/ PackInt(lon_int) = None \/ PackInt(timestamp) = None
        THEN Failed
        ELSE PackInt(lat_int) \o PackInt(lon_int) \o PackInt(timestamp)

\* PacketParser.decode_minimal_packet; Failed is the ValueError of line 132
DecodeMinimalPacket(packet) ==
    IF Len(packet) # PacketLength THEN Failed
    ELSE [latitude |-> FloatOf(UnpackInt(SubSeq(packet, 1, BytesPerInt))),
          longitude |-> FloatOf(UnpackInt(SubSeq(packet, BytesPerInt + 1, 2 * BytesPerInt))),
          timestamp |-> UnpackInt(SubSeq(packet, 2 * BytesPerInt + 1, 3 * BytesPerInt))]

\* coordinates given to the decimals of 1 / DecimalScale, and timestamps
Longitudes == {FloatOf(k) : k \in {-(IntRange \div 2), -1, 0, 58, (IntRange \div 2) - 1}}
Latitudes == {FloatOf(k) : k \in SignedInts}
Timestamps == {0, 1, (IntRange \div 2) - 1, IntRange \div 2, IntRange - 1}

---------------------------------------------------------------------------
(* The state after construction *)

EngineInit ==
    /\ connected = FALSE
    /\ stop_event = FALSE
    /\ rx_pc = "off"
    /\ tx_pc = "off"
    /\ tx_threads = 0
    /\ stop_ret = "none"
    /\ tx_queue = <<>>
    /\ rx_queue = <<>>
    /\ message_callbacks = {}
    /\ ack_events = <<>>
    /\ message_id_counter = 0
    /\ now = 0
    /\ stats = [tx_packets |-> 0, tx_errors |-> 0, rx_packets |-> 0, rx_errors |-> 0]
    /\ cur = NullMsg
    /\ success = FALSE
    /\ retries = 0
    /\ radio_tx = "idle"
    /\ handled = [s \in Senders |-> 0]
    /\ send_ret = "none"
    /\ calls = [c \in Callers |-> NullMsg]
    /\ arrivals = 0
    /\ tx_count = 0
    /\ ack_waits = 0
    /\ stats_at_get = <<0, 0>>
    /\ air = <<>>
    /\ trk_rx_queue = <<>>
    /\ trk_stats = [rx_packets |-> 0, rx_errors |-> 0]
    /\ trk_seen = {}

\* no message was given to the codec yet
CodecIdle ==
    /\ encryption_key = DefaultKey
    /\ wire_msg = NullMsg
    /\ payload = NoPayload
    /\ decoded = Pending
    /\ trk_decoded = Pending

\* GPSModule.__init__
GpsIdle ==
    /\ gps_is_connected = FALSE
    /\ gps_is_running = FALSE
    /\ gps_pc = "off"
    /\ data_lock = "free"
    /\ gps_data = [latitude |-> None, longitude |-> None, altitude |-> None,
                   speed |-> None, course |-> None, satellites |-> 0,
                   fix_quality |-> 0, hdop |-> 999, pdop |-> 999, fix_type |-> 1,
                   time |-> NoText, date |-> NoText, valid |-> FALSE]
    /\ require_3d_fix = FALSE
    /\ gga_nonzero = FALSE
    /\ wait_pc = "idle"
    /\ wait_ret = "none"
    /\ wait_polls = 0

\* no line was given to the NMEA validator yet
NmeaIdle ==
    /\ nmea_sent = <<>>
    /\ nmea_sentence = <<>>
    /\ nmea_valid = "none"

\* NavigationCalculator.__init__
NavIdle ==
    /\ tracker_position = None
    /\ beacon_position = None
    /\ distance_history = <<>>
    /\ bearing_history = <<>>
    /\ nav_time = 0
    /\ nav_samples = <<>>

\* no trend was asked for yet
TrendIdle == bearing_trend = Pending

\* no minimal packet was encoded yet
PacketIdle ==
    /\ packet_args = None
    /\ packet_bytes = NoPayload
    /\ packet_decoded = Pending

Init ==
    /\ EngineInit
    /\ CodecIdle
    /\ GpsIdle
    /\ NmeaIdle
    /\ NavIdle
    /\ TrendIdle
    /\ PacketIdle

\* any key and any message
CodecInit ==
    /\ EngineInit
    /\ encryption_key \in Keys
    /\ wire_msg \in CodecMessages
    /\ payload = NoPayload
    /\ decoded = Pending
    /\ trk_decoded = Pending
    /\ GpsIdle
    /\ NmeaIdle
    /\ NavIdle
    /\ TrendIdle
    /\ PacketIdle

---------------------------------------------------------------------------
(* The application's calls *)

tx_locals == <<cur, success, retries, tx_count, ack_waits, stats_at_get>>
lifecycle == <<connected, stop_event, rx_pc, tx_pc, tx_threads, stop_ret>>

\* LoRaModule.connect, the successful path
Connect ==
    /\ ~connected
    /\ connected' = TRUE
    /\ UNCHANGED <<stop_event, rx_pc, tx_pc, tx_threads, stop_ret, tx_queue, rx_queue,
                   message_callbacks,
                   ack_events, message_id_counter, now, stats, tx_locals, radio_tx,
                   handled, send_ret, calls, arrivals, tracker_vars, codec_vars, app_vars>>

\* LoRaModule.start, when the engine is connected and the receive thread is
\* not alive (line 144 looks at rx_thread only): the stop signal is cleared
\* and a receive thread and a TX thread are created.  A TX thread of an
\* earlier start that is still alive goes on from where it is; the model
\* follows its steps, and the new TX thread waits at the queue.
Start ==
    /\ connected
    /\ rx_pc = "off"
    /\ stop_event' = FALSE
    /\ rx_pc' = "run"
    /\ tx_threads' = tx_threads + 1
    /\ tx_pc' = IF tx_pc = "off" THEN "get" ELSE tx_pc
    /\ UNCHANGED <<connected, stop_ret, tx_queue, rx_queue, message_callbacks, ack_events,
                   message_id_counter, now, stats, tx_locals, radio_tx, handled,
                   send_ret, calls, arrivals, tracker_vars, codec_vars, app_vars>>

\* LoRaModule.stop, lines 164-172: sets the stop signal and puts the radio to
\* sleep (which ends a transmission in progress); the caller then waits in
\* rx_thread.join(timeout=2.0)
Stop ==
    /\ ~stop_event
    /\ stop_event' = TRUE
    /\ stop_ret' = "joining"
    /\ radio_tx' = IF connected THEN "idle" ELSE radio_tx
    /\ UNCHANGED <<connected, rx_pc, tx_pc, tx_threads, tx_queue, rx_queue,
                   message_callbacks,
                   ack_events, message_id_counter, now, stats, tx_locals, handled,
                   send_ret, calls, arrivals, tracker_vars, codec_vars, app_vars>>

\* a wait of the TX worker that is longer than the 2 s stop() joins it for: the
\* transmit-completion poll (no deadline) and the ack wait (LORA_ACK_TIMEOUT, 5 s)
OutlivesJoin == tx_pc \in {"txpoll", "ackwait"}

\* LoRaModule.stop, lines 173-179: each join returns, because the thread ended
\* or because its 2 s passed (the receive worker ends within its 10 ms poll,
\* the TX worker within 2 s unless it is in a longer wait); the result of the
\* joins is not looked at, "LoRa communication threads stopped" is logged and
\* None is returned.
StopReturn ==
    /\ stop_ret = "joining"
    /\ rx_pc = "off"
    /\ tx_pc = "off" \/ OutlivesJoin
    /\ stop_ret' = "stopped"
    /\ UNCHANGED <<connected, stop_event, rx_pc, tx_pc, tx_threads, tx_queue, rx_queue,
                   message_callbacks, ack_events, message_id_counter, now, stats,
                   tx_locals, radio_tx, handled, send_ret, calls, arrivals,
                   tracker_vars, codec_vars, app_vars>>

\* LoRaModule.disconnect: stop(), then self.lora = None and connected = False
Disconnect ==
    /\ connected
    /\ stop_event' = TRUE
    /\ radio_tx' = "idle"
    /\ connected' = FALSE
    /\ stop_ret' = "stopped"
    /\ UNCHANGED <<rx_pc, tx_pc, tx_threads, tx_queue, rx_queue, message_callbacks,
                   ack_events,
                   message_id_counter, now, stats, tx_locals, handled, send_ret, calls,
                   arrivals, tracker_vars, codec_vars, app_vars>>

\* LoRaModule.register_callback
RegisterCallback(message_type) ==
    /\ message_type \notin message_callbacks
    /\ message_callbacks' = message_callbacks \cup {message_type}
    /\ UNCHANGED <<lifecycle, tx_queue, rx_queue, ack_events, message_id_counter, now,
                   stats, tx_locals, radio_tx, handled, send_ret, calls, arrivals,
                   tracker_vars, codec_vars, app_vars>>

\* LoRaModule.send_message(message_type, data, SERVER_ID, require_ack)
SendMessage(message_type, require_ack) ==
    /\ IF ~connected
       THEN /\ send_ret' = "none"
            /\ UNCHANGED <<tx_queue, ack_events, message_id_counter>>
       ELSE LET message_id == MessageId(now, message_id_counter)
                message == NewMessage(message_id, SERVER_ID, message_type, require_ack)
            IN  /\ message_id_counter' = (message_id_counter + 1) % CounterMod
                /\ ack_events' = IF require_ack
                                 THEN (message_id :> FALSE) @@ ack_events
                                 ELSE ack_events
                /\ tx_queue' = PutNoWait(tx_queue, message)
                /\ send_ret' = IF QueueFull(tx_queue) THEN "none" ELSE "id"
    /\ UNCHANGED <<lifecycle, rx_queue, message_callbacks, now, stats, tx_locals,
                   radio_tx, handled, calls, arrivals, tracker_vars, codec_vars, app_vars>>

\* send_message called from several threads at once (the main loop, and the
\* handler thread of a get_location command, main.py:121-123).  Lines 195-200:
\* the caller c has passed the connected test and made its message id.
SendMakeId(c, message_type, require_ack) ==
    /\ calls[c] = NullMsg
    /\ connected
    /\ calls' = [calls EXCEPT ![c] = NewMessage(MessageId(now, message_id_counter),
                                               SERVER_ID, message_type, require_ack)]
    /\ UNCHANGED <<lifecycle, tx_queue, rx_queue, message_callbacks, ack_events,
                   message_id_counter, now, stats, tx_locals, radio_tx, handled,
                   send_ret, arrivals, tracker_vars, codec_vars, app_vars>>

\* lines 201-224 for the caller c
SendFinish(c) ==
    /\ calls[c] # NullMsg
    /\ message_id_counter' = (message_id_counter + 1) % CounterMod
    /\ ack_events' = IF calls[c].ack_req
                     THEN (calls[c].id :> FALSE) @@ ack_events
                     ELSE ack_events
    /\ tx_queue' = PutNoWait(tx_queue, calls[c])
    /\ send_ret' = IF QueueFull(tx_queue) THEN "none" ELSE "id"
    /\ calls' = [calls EXCEPT ![c] = NullMsg]
    /\ UNCHANGED <<lifecycle, rx_queue, message_callbacks, now, stats, tx_locals,
                   radio_tx, handled, arrivals, tracker_vars, codec_vars, app_vars>>

\* int(time.time()) moves on to the next second
Tick ==
    /\ now' = now + 1
    /\ UNCHANGED <<lifecycle, tx_queue, rx_queue, message_callbacks, ack_events,
                   message_id_counter, stats, tx_locals, radio_tx, handled, calls,
                   send_ret, arrivals, tracker_vars, codec_vars, app_vars>>

---------------------------------------------------------------------------
(* The TX worker, LoRaModule._tx_worker *)

tx_frame == <<connected, stop_event, rx_pc, tx_threads, stop_ret, rx_queue, message_callbacks,
              message_id_counter, now, handled, send_ret, calls, tracker_vars, codec_vars, app_vars>>

\* while not self.stop_event.is_set(): the loop ends
TxExit ==
    /\ tx_pc = "get"
    /\ stop_event
    /\ tx_threads' = tx_threads - 1
    /\ tx_pc' = IF tx_threads > 1 THEN "get" ELSE "off"
    /\ UNCHANGED <<connected, stop_ret, stop_event, rx_pc, rx_queue, message_callbacks,
                   message_id_counter, now, handled, send_ret, calls, tracker_vars, codec_vars, app_vars, tx_queue,
                   ack_events, stats, tx_locals, radio_tx, arrivals>>

\* self.tx_queue.get(block=True, timeout=0.5) returns a message (the stop
\* signal was clear when the loop tested it)
TxGet ==
    /\ tx_pc = "get"
    /\ tx_queue # <<>>
    /\ cur' = Head(tx_queue)
    /\ tx_queue' = Tail(tx_queue)
    /\ success' = FALSE
    /\ retries' = 0
    /\ tx_count' = 0
    /\ ack_waits' = 0
    /\ stats_at_get' = <<stats["tx_packets"], stats["tx_errors"]>>
    /\ tx_pc' = "attempt"
    /\ UNCHANGED <<tx_frame, ack_events, stats, radio_tx, arrivals>>

\* the test of the retry loop (line 349)
RetryLoopContinues == retries < LORA_RETRIES /\ ~success /\ ~stop_event

\* line 349, and _transmit_message up to setTx; a radio operation that raises
\* makes _transmit_message return False
TxAttempt ==
    /\ tx_pc = "attempt"
    /\ IF RetryLoopContinues
       THEN \/ /\ connected
               /\ radio_tx' = "busy"
               /\ tx_count' = tx_count + 1
               /\ tx_pc' = "txpoll"
               /\ UNCHANGED retries
            \/ /\ retries' = retries + 1
               /\ tx_pc' = "backoff"
               /\ UNCHANGED <<radio_tx, tx_count>>
       ELSE /\ tx_pc' = "result"
            /\ UNCHANGED <<radio_tx, tx_count, retries>>
    /\ UNCHANGED <<tx_frame, tx_queue, ack_events, stats, cur, ack_waits, stats_at_get,
                   success, arrivals>>

\* the radio finishes the transmission
RadioTxDone ==
    /\ radio_tx = "busy"
    /\ radio_tx' = "done"
    /\ UNCHANGED <<tx_frame, tx_pc, tx_queue, ack_events, stats, tx_locals, arrivals>>

\* lines 441-450: getStatus() reports STATUS_TX_DONE and _transmit_message
\* returns True; lines 352-357
TxPollDone ==
    /\ tx_pc = "txpoll"
    /\ connected
    /\ radio_tx = "done"
    /\ radio_tx' = "idle"
    /\ success' = TRUE
    /\ IF cur.ack_req /\ cur.id \in DOMAIN ack_events
       THEN tx_pc' = "ackwait" /\ ack_waits' = ack_waits + 1
       ELSE tx_pc' = "attempt" /\ UNCHANGED ack_waits
    /\ UNCHANGED <<tx_frame, tx_queue, ack_events, stats, cur, stats_at_get, retries,
                   tx_count, arrivals>>

\* lines 441-456: getStatus() raises, _transmit_message returns False; lines 378-382
TxPollFault ==
    /\ tx_pc = "txpoll"
    /\ radio_tx' = "idle"
    /\ retries' = retries + 1
    /\ tx_pc' = "backoff"
    /\ UNCHANGED <<tx_frame, tx_queue, ack_events, stats, cur, ack_waits, stats_at_get,
                   success, tx_count, arrivals>>

\* lines 361-372: the ack wait finds a packet in the radio and reads it
TxAckRead(p) ==
    /\ tx_pc = "ackwait"
    /\ connected
    /\ arrivals' = arrivals + 1
    /\ CASE RawJson(p) = "nondict" ->
                \* ack_msg.get raises AttributeError: the handler of line 398
                /\ tx_pc' = "errsleep"
                /\ UNCHANGED ack_events
         [] RawJson(p) = "object" /\ p.msg.type = "ack" /\ p.msg.ack_id = cur.id ->
                \* set(), break; line 374 finds the event set
                /\ ack_events' = SetEvent(cur.id)
                /\ tx_pc' = "attempt"
         [] OTHER ->
                /\ UNCHANGED <<tx_pc, ack_events>>
    /\ UNCHANGED <<tx_frame, tx_queue, stats, tx_locals, radio_tx>>

\* line 361: self.lora.available() raises; the handler of line 398
TxAckFault ==
    /\ tx_pc = "ackwait"
    /\ tx_pc' = "errsleep"
    /\ UNCHANGED <<tx_frame, tx_queue, ack_events, stats, tx_locals, radio_tx, arrivals>>

\* line 360: LORA_ACK_TIMEOUT has passed; lines 374-382
TxAckTimeout ==
    /\ tx_pc = "ackwait"
    /\ IF IsSet(cur.id)
       THEN /\ tx_pc' = "attempt"
            /\ UNCHANGED <<success, retries>>
       ELSE /\ success' = FALSE
            /\ retries' = retries + 1
            /\ tx_pc' = "backoff"
    /\ UNCHANGED <<tx_frame, tx_queue, ack_events, stats, cur, ack_waits, stats_at_get,
                   tx_count, radio_tx, arrivals>>

\* line 382: time.sleep(backoff_time) returns
TxBackoff ==
    /\ tx_pc = "backoff"
    /\ tx_pc' = "attempt"
    /\ UNCHANGED <<tx_frame, tx_queue, ack_events, stats, tx_locals, radio_tx, arrivals>>

\* lines 385-393
TxResult ==
    /\ tx_pc = "result"
    /\ stats' = IF success THEN AddStat("tx_packets") ELSE AddStat("tx_errors")
    /\ tx_pc' = "ratelimit"
    /\ UNCHANGED <<tx_frame, tx_queue, ack_events, tx_locals, radio_tx, arrivals>>

\* line 396: time.sleep(LORA_TX_INTERVAL / 1000.0) returns
TxRateLimit ==
    /\ tx_pc = "ratelimit"
    /\ tx_pc' = "get"
    /\ UNCHANGED <<tx_frame, tx_queue, ack_events, stats, tx_locals, radio_tx, arrivals>>

\* a worker without the handler of line 398: the exception ends the thread
TxErrEnds ==
    /\ tx_pc = "errsleep"
    /\ tx_threads' = tx_threads - 1
    /\ tx_pc' = IF tx_threads > 1 THEN "get" ELSE "off"
    /\ UNCHANGED <<connected, stop_ret, stop_event, rx_pc, rx_queue, message_callbacks,
                   message_id_counter, now, handled, send_ret, calls, tracker_vars, codec_vars, app_vars, tx_queue,
                   ack_events, stats, tx_locals, radio_tx, arrivals>>

\* lines 398-402: the exception is caught and logged, time.sleep(1.0) returns
\* and the loop tests the stop signal again
TxErrSleep ==
    /\ tx_pc = "errsleep"
    /\ tx_pc' = "get"
    /\ UNCHANGED <<tx_frame, tx_queue, ack_events, stats, tx_locals, radio_tx, arrivals>>

---------------------------------------------------------------------------
(* The receive worker, LoRaModule._receive_worker *)

rx_frame == <<connected, stop_event, rx_pc, tx_pc, tx_threads, stop_ret, message_callbacks,
              message_id_counter, now, tx_locals, radio_tx, send_ret, calls, tracker_vars, codec_vars, app_vars>>

\* _send_ack: the TX queue after the ack for `message' was put on it
SendAck(message) == PutNoWait(tx_queue, AckFor(message, now))

\* lines 480-483: the message is for this node
ForThisNode(message) == message.dst \in {TRACKER_ID, Broadcast}

\* a dispatch that treats no message as an acknowledgment
NeverAnAck(message) == FALSE

\* line 486: the message is an acknowledgment
IsAck(message) == message.type = "ack"

\* _process_packet on the packet p
ProcessPacket(p) ==
    IF DecodedJson(p) # "object" \/ ~ForThisNode(p.msg)
    THEN \* json.loads or message.get raised and was logged, or the message is
         \* for another node
         UNCHANGED <<tx_queue, rx_queue, ack_events, handled>>
    ELSE LET message == p.msg IN
         IF IsAck(message)
         THEN /\ ack_events' = IF message.ack_id \in DOMAIN ack_events
                               THEN SetEvent(message.ack_id)
                               ELSE ack_events
              /\ UNCHANGED <<tx_queue, rx_queue, handled>>
         ELSE /\ handled' = IF message.type \in message_callbacks
                            THEN [handled EXCEPT ![message.src] = @ + 1]
                            ELSE handled
              /\ tx_queue' = IF message.ack_req THEN SendAck(message) ELSE tx_queue
              /\ rx_queue' = PutNoWait(rx_queue, message)
              /\ UNCHANGED ack_events

\* a dispatch that calls the handler in the receive worker's own thread: the
\* worker is held while a handler it has called has not returned
HandlerCalledInline == \E s \in Senders : handled[s] > 0

\* lines 496-500: the handler is given a thread of its own and
\* Thread.start() returns at once, so the receive worker is never held by a
\* handler, whether the handler returns or not
WaitsForHandler == FALSE

\* lines 310-315 and _process_received_data: a packet is read from the radio
RxReceive(p) ==
    /\ rx_pc = "run"
    /\ connected
    /\ ~WaitsForHandler
    /\ arrivals' = arrivals + 1
    /\ \/ /\ p.json # "badutf8"
          /\ stats' = AddStat("rx_packets")
          /\ ProcessPacket(p)
       \/ \* packetRssi() or snr() raises, or data.decode('utf-8') does
          /\ stats' = [stats EXCEPT !["rx_packets"] = @ + 1, !["rx_errors"] = @ + 1]
          /\ UNCHANGED <<tx_queue, rx_queue, ack_events, handled>>
    /\ UNCHANGED rx_frame

\* lines 316-319: no packet is ready and the worker calls setRx(0); a
\* transmission that is under way or not yet seen as done may be lost
RxIdle ==
    /\ rx_pc = "run"
    /\ connected
    /\ radio_tx # "idle"
    /\ radio_tx' = "idle"
    /\ UNCHANGED <<connected, stop_event, rx_pc, tx_pc, tx_threads, stop_ret, tx_queue, rx_queue,
                   message_callbacks, ack_events, message_id_counter, now, stats,
                   tx_locals, handled, send_ret, calls, arrivals, tracker_vars, codec_vars, app_vars>>

\* lines 310-326: getStatus(), read() or setRx(0) raises; the handler of line
\* 324 logs the exception and sleeps 1 s
RxFault ==
    /\ rx_pc = "run"
    /\ rx_pc' = "errsleep"
    /\ UNCHANGED <<connected, stop_event, tx_pc, tx_threads, stop_ret, tx_queue, rx_queue,
                   message_callbacks, ack_events, message_id_counter, now, stats,
                   tx_locals, radio_tx, handled, send_ret, calls, arrivals,
                   tracker_vars, codec_vars, app_vars>>

\* line 329: time.sleep(1) returns and the loop tests the stop signal again
RxErrSleep ==
    /\ rx_pc = "errsleep"
    /\ rx_pc' = "run"
    /\ UNCHANGED <<connected, stop_event, tx_pc, tx_threads, stop_ret, tx_queue, rx_queue,
                   message_callbacks, ack_events, message_id_counter, now, stats,
                   tx_locals, radio_tx, handled, send_ret, calls, arrivals,
                   tracker_vars, codec_vars, app_vars>>

\* line 306: the loop ends
RxExit ==
    /\ rx_pc = "run"
    /\ stop_event
    /\ rx_pc' = "off"
    /\ UNCHANGED <<connected, stop_event, tx_pc, tx_threads, stop_ret, tx_queue, rx_queue,
                   message_callbacks,
                   ack_events, message_id_counter, now, stats, tx_locals, radio_tx,
                   handled, send_ret, calls, arrivals, tracker_vars, codec_vars, app_vars>>

---------------------------------------------------------------------------
(* The tracker's receiver, LoRaReceiver, at the other end of the link *)

\* _transmit_message lines 416-431: the payload the beacon's radio is given
\* (LORA_ENCRYPTION_KEY is set, so the message is encrypted and base64-encoded)
Encoded(message) == Packet("enc", "object", message)

\* the beacon's radio finishes a transmission and the tracker's radio hears it
LinkTxDone ==
    /\ radio_tx = "busy"
    /\ radio_tx' = "done"
    /\ air' = Append(air, Encoded(cur))
    /\ UNCHANGED <<connected, stop_event, rx_pc, tx_pc, tx_threads, stop_ret, tx_queue, rx_queue,
                   message_callbacks, ack_events, message_id_counter, now, stats,
                   tx_locals, handled, send_ret, calls, arrivals, trk_rx_queue, trk_stats,
                   trk_seen, codec_vars, app_vars>>

\* LoRaReceiver._decrypt and _process_packet: what the bytes parse to.  The
\* tracker AES-ECB-decrypts the bytes as they came (no base64 decoding, no IV),
\* so a payload of the beacon comes out as bytes that are neither JSON nor a
\* 12-byte position packet; text that is not encrypted is parsed as it is
\* when the decryption raises.
TrackerJson(p) == IF p.form = "enc" THEN "invalid" ELSE p.json

\* LoRaReceiver._rx_worker lines 227-271: one packet is received.  The worker
\* has no call that transmits.
TrackerRx ==
    /\ air # <<>>
    /\ LET p == Head(air) IN
        /\ air' = Tail(air)
        /\ trk_seen' = trk_seen \cup {p.msg.id}
        /\ trk_stats' = [trk_stats EXCEPT !["rx_packets"] = @ + 1]
        /\ trk_rx_queue' = IF TrackerJson(p) = "object" /\ ~QueueFull(trk_rx_queue)
                           THEN Append(trk_rx_queue, p.msg)
                           ELSE trk_rx_queue
    /\ UNCHANGED <<engine_vars, codec_vars, app_vars>>

---------------------------------------------------------------------------
(* The codec at work: one message is encoded by the beacon, and the        *)
(* payload is decoded by a beacon engine and by the tracker                *)

\* LoRaModule._transmit_message lines 416-426
TransmitMessage ==
    /\ payload = NoPayload
    /\ \E iv \in IVs : payload' = TransmitPayload(encryption_key, wire_msg, iv)
    /\ UNCHANGED <<engine_vars, tracker_vars, app_vars, encryption_key, wire_msg, decoded,
                   trk_decoded>>

\* LoRaModule._process_packet lines 465-478 on that payload
BeaconDecode ==
    /\ payload # NoPayload
    /\ decoded = Pending
    /\ decoded' = ProcessPayload(encryption_key, payload)
    /\ UNCHANGED <<engine_vars, tracker_vars, app_vars, encryption_key, wire_msg, payload,
                   trk_decoded>>

\* _transmit_message lines 416-426 of a sender that has no encryption key:
\* the payload is the JSON text
UnencryptedTransmit ==
    /\ payload = NoPayload
    /\ payload' = TransmitPayload(<<>>, wire_msg, <<>>)
    /\ UNCHANGED <<engine_vars, tracker_vars, app_vars, encryption_key, wire_msg, decoded,
                   trk_decoded>>

\* LoRaReceiver._rx_worker lines 252-262 on that payload: _decrypt,
\* _process_packet, and the put on rx_queue of a message that is not None
TrackerDecode ==
    /\ payload # NoPayload
    /\ trk_decoded = Pending
    /\ LET message == TrackerProcess(TrackerDecrypt(encryption_key, payload))
       IN  /\ trk_decoded' = message
           /\ trk_rx_queue' = IF message # None /\ ~QueueFull(trk_rx_queue)
                              THEN Append(trk_rx_queue, message)
                              ELSE trk_rx_queue
    /\ UNCHANGED <<engine_vars, app_vars, air, trk_stats, trk_seen, encryption_key, wire_msg,
                   payload, decoded>>

---------------------------------------------------------------------------
\* the message types the application may register a handler for
CallbackTypes == {"command", "ack"}
SendKinds == {<<"position", TRUE>>, <<"heartbeat", FALSE>>}

\* the TX worker's steps
TxWorker ==
    \/ TxGet
    \/ TxAttempt
    \/ RadioTxDone
    \/ TxPollDone
    \/ TxPollFault
    \/ TxAckFault
    \/ TxAckTimeout
    \/ TxBackoff
    \/ TxResult
    \/ TxRateLimit
    \/ TxErrSleep

(* The sending side: the application sends, other nodes answer with acks,  *)
(* and the engine is started, stopped and disconnected.                    *)
Next ==
    \/ Connect
    \/ (tx_threads < MaxTxThreads /\ Start)
    \/ Stop
    \/ StopReturn
    \/ Disconnect
    \/ \E k \in SendKinds : message_id_counter < MaxSends /\ SendMessage(k[1], k[2])
    \/ TxWorker
    \/ TxExit
    \/ \E p \in AckPackets : arrivals < MaxArrivals /\ TxAckRead(p)
    \/ \E p \in AckPackets : arrivals < MaxArrivals /\ RxReceive(p)
    \/ RxIdle
    \/ RxExit

Spec == Init /\ [][Next]_vars

(* The receiving side: a running engine that is sent commands and acks. *)
RxNext ==
    \/ Connect
    \/ Start
    \/ \E t \in CallbackTypes : RegisterCallback(t)
    \/ \E k \in SendKinds : message_id_counter < RxMaxSends /\ SendMessage(k[1], k[2])
    \/ TxWorker
    \/ \E p \in InboundPackets : arrivals < RxMaxArrivals /\ TxAckRead(p)
    \/ \E p \in InboundPackets : arrivals < RxMaxArrivals /\ RxReceive(p)
    \/ RxIdle

SpecRx == Init /\ [][RxNext]_vars

(* The two-node link: the beacon's engine and the tracker's receiver; the  *)
(* only packets the beacon can receive are those the tracker transmits.    *)
(* The link loses nothing, and an ack wait (LORA_ACK_TIMEOUT, 5 s) expires *)
(* only after the tracker, which polls its radio every 0.1 s, has read     *)
(* what was transmitted.                                                   *)
LinkNext ==
    \/ Connect
    \/ Start
    \/ \E k \in SendKinds : message_id_counter < MaxSends /\ SendMessage(k[1], k[2])
    \/ TxGet
    \/ TxAttempt
    \/ LinkTxDone
    \/ TxPollDone
    \/ TxPollFault
    \/ TxAckFault
    \/ (air = <<>> /\ TxAckTimeout)
    \/ TxBackoff
    \/ TxResult
    \/ TxRateLimit
    \/ TxErrSleep
    \/ RxIdle
    \/ TrackerRx

SpecLink == Init /\ [][LinkNext]_vars

(* Message ids: send_message called from two threads while the clock runs. *)
IdsNext ==
    \/ Connect
    \/ (now < MaxClock /\ Tick)
    \/ \E c \in Callers, k \in SendKinds :
          message_id_counter < IdMaxSends /\ SendMakeId(c, k[1], k[2])
    \/ \E c \in Callers : SendFinish(c)

SpecIds == Init /\ [][IdsNext]_vars

(* The codec: any message under any key *)
CodecNext ==
    \/ TransmitMessage
    \/ BeaconDecode
    \/ TrackerDecode

SpecCodec == CodecInit /\ [][CodecNext]_vars

(* Interoperability: the payload of a sender with the key, or of a sender  *)
(* without encryption, is decoded by a beacon engine that has the key.     *)
InteropNext ==
    \/ TransmitMessage
    \/ UnencryptedTransmit
    \/ BeaconDecode

SpecInterop == CodecInit /\ [][InteropNext]_vars

(* Faults: radio operations raise and junk arrives while the engine runs   *)
(* and is stopped.                                                          *)
FaultNext ==
    \/ Connect
    \/ (~stop_event /\ Start)
    \/ Stop
    \/ \E k \in SendKinds : message_id_counter < FaultMaxSends /\ SendMessage(k[1], k[2])
    \/ TxWorker
    \/ TxExit
    \/ \E p \in InboundPackets : arrivals < FaultMaxArrivals /\ TxAckRead(p)
    \/ \E p \in InboundPackets : arrivals < FaultMaxArrivals /\ RxReceive(p)
    \/ RxFault
    \/ RxErrSleep
    \/ RxExit

SpecFault == Init /\ [][FaultNext]_vars

(* Overflow of rx_queue: a running engine is sent more commands than       *)
(* rx_queue holds, and the application takes none of them from the queue.   *)
DropNext ==
    \/ Connect
    \/ Start
    \/ \E t \in CallbackTypes : RegisterCallback(t)
    \/ \E p \in PacketsOf(InboundCommands) : arrivals < DropMaxArrivals /\ RxReceive(p)
    \/ TxGet
    \/ TxAttempt
    \/ RadioTxDone
    \/ TxPollDone
    \/ TxPollFault
    \/ TxBackoff
    \/ TxResult
    \/ TxRateLimit
    \/ RxIdle

SpecDrop == Init /\ [][DropNext]_vars

(* Shutdown: the engine is started once, sends, and is stopped.  Nothing   *)
(* is received, so every ack wait expires.                                  *)
StopNext ==
    \/ Connect
    \/ (~stop_event /\ Start)
    \/ Stop
    \/ StopReturn
    \/ \E k \in SendKinds : message_id_counter < StopMaxSends /\ SendMessage(k[1], k[2])
    \/ TxWorker
    \/ TxExit
    \/ RxIdle
    \/ RxExit

\* What the scheduler and the clock guarantee to a live TX thread: the test of
\* a loop is made, a queue.get, a sleep and a wait with a timeout return, and
\* a poll that finds STATUS_TX_DONE ends.  A radio operation that raises is
\* not guaranteed.
TxProgress ==
    \/ TxExit
    \/ TxGet
    \/ TxAttempt
    \/ TxPollDone
    \/ TxAckTimeout
    \/ TxBackoff
    \/ TxResult
    \/ TxRateLimit
    \/ TxErrSleep

\* threads that can run do run, and a radio left alone finishes a transmission
SpecStop ==
    /\ Init
    /\ [][StopNext]_vars
    /\ WF_vars(TxProgress)
    /\ WF_vars(RxExit)
    /\ WF_vars(RadioTxDone)

---------------------------------------------------------------------------
(* The GPS module's threads: the reading thread _read_gps_data and the     *)
(* thread that calls wait_for_fix.  data_lock is a threading.Lock, which   *)
(* is not reentrant: an acquire waits until the lock is free, also when    *)
(* the holder is the acquiring thread itself.                              *)

gps_frame == <<engine_vars, tracker_vars, codec_vars, nmea_vars, nav_vars, trend_vars,
               packet_vars>>

\* GPSModule.connect, the successful path
GpsConnect ==
    /\ ~gps_is_connected
    /\ gps_is_connected' = TRUE
    /\ UNCHANGED <<gps_frame, gps_is_running, gps_pc, data_lock, gps_data, require_3d_fix,
                   gga_nonzero, wait_pc, wait_ret, wait_polls>>

\* GPSModule.start
GpsStart ==
    /\ gps_is_connected
    /\ ~gps_is_running
    /\ gps_is_running' = TRUE
    /\ gps_pc' = "read"
    /\ UNCHANGED <<gps_frame, gps_is_connected, data_lock, gps_data, require_3d_fix,
                   gga_nonzero, wait_pc, wait_ret, wait_polls>>

\* GPSModule.set_requirements(require_3d_fix = b)
SetRequirements(b) ==
    /\ require_3d_fix # b
    /\ require_3d_fix' = b
    /\ UNCHANGED <<gps_frame, gps_is_connected, gps_is_running, gps_pc, data_lock,
                   gps_data, gga_nonzero, wait_pc, wait_ret, wait_polls>>

\* a GGA sentence that reports a satellite count other than 0
GgaReportsNonzero(parts) ==
    /\ Part(parts, 0) = "GPGGA"
    /\ Len(parts) >= 15
    /\ ToNumber(Part(parts, 7)) > 0

\* _read_gps_data lines 344-347: a line that passed _is_valid_nmea is parsed;
\* the parser takes data_lock for the sentence and gives it back
GpsParse(parts) ==
    /\ gps_pc = "read"
    /\ data_lock = "free"
    /\ gps_data' = ParseNmea(gps_data, parts)
    /\ gga_nonzero' = (gga_nonzero \/ GgaReportsNonzero(parts))
    /\ UNCHANGED <<gps_frame, gps_is_connected, gps_is_running, gps_pc, data_lock,
                   require_3d_fix, wait_pc, wait_ret, wait_polls>>

\* the lines of this iteration are done
GpsEndOfLines ==
    /\ gps_pc = "read"
    /\ gps_pc' = "status"
    /\ UNCHANGED <<gps_frame, gps_is_connected, gps_is_running, data_lock, gps_data,
                   require_3d_fix, gga_nonzero, wait_pc, wait_ret, wait_polls>>

\* lines 350-352: the thread takes data_lock; last_update is 0 and
\* update_interval is 1.0, so the status is due and _update_gps_status is
\* called with the lock held.  Its first statement (line 628) acquires
\* data_lock again, which the thread holds: the thread waits there, and
\* lines 630-652 and 353-354 are never reached.
GpsStatusDue ==
    /\ gps_pc = "status"
    /\ data_lock = "free"
    /\ data_lock' = "gps"
    /\ gps_pc' = "update"
    /\ UNCHANGED <<gps_frame, gps_is_connected, gps_is_running, gps_data, require_3d_fix,
                   gga_nonzero, wait_pc, wait_ret, wait_polls>>

\* lines 332-335 raise (a serial fault): the except clause of line 359
GpsReadFault ==
    /\ gps_pc = "read"
    /\ gps_pc' = "errsleep"
    /\ UNCHANGED <<gps_frame, gps_is_connected, gps_is_running, data_lock, gps_data,
                   require_3d_fix, gga_nonzero, wait_pc, wait_ret, wait_polls>>

\* line 361: time.sleep(1.0) is over
GpsErrSleep ==
    /\ gps_pc = "errsleep"
    /\ gps_pc' = "read"
    /\ UNCHANGED <<gps_frame, gps_is_connected, gps_is_running, data_lock, gps_data,
                   require_3d_fix, gga_nonzero, wait_pc, wait_ret, wait_polls>>

\* wait_for_fix lines 311-315: start() when the module is not running
WaitForFixCall ==
    /\ wait_pc = "idle"
    /\ wait_polls' = 0
    /\ IF gps_is_running
       THEN /\ wait_pc' = "test"
            /\ wait_ret' = "none"
            /\ UNCHANGED <<gps_is_running, gps_pc>>
       ELSE IF gps_is_connected
       THEN /\ gps_is_running' = TRUE
            /\ gps_pc' = "read"
            /\ wait_pc' = "test"
            /\ wait_ret' = "none"
       ELSE /\ wait_ret' = "false"
            /\ UNCHANGED <<gps_is_running, gps_pc, wait_pc>>
    /\ UNCHANGED <<gps_frame, gps_is_connected, data_lock, gps_data, require_3d_fix,
                   gga_nonzero>>

\* line 317: the loop test; after MaxPolls polls the timeout has passed
WaitTest(elapsed) ==
    /\ wait_pc = "test"
    /\ wait_polls = MaxPolls => elapsed
    /\ IF elapsed
       THEN wait_pc' = "idle" /\ wait_ret' = "false"
       ELSE wait_pc' = "hasfix" /\ UNCHANGED wait_ret
    /\ UNCHANGED <<gps_frame, gps_is_connected, gps_is_running, gps_pc, data_lock,
                   gps_data, require_3d_fix, gga_nonzero, wait_polls>>

\* lines 318-320: has_fix() takes data_lock; without a fix, time.sleep(0.5)
WaitHasFix ==
    /\ wait_pc = "hasfix"
    /\ data_lock = "free"
    /\ IF HasFix(gps_data, require_3d_fix)
       THEN wait_pc' = "idle" /\ wait_ret' = "true" /\ UNCHANGED wait_polls
       ELSE wait_pc' = "test" /\ wait_polls' = wait_polls + 1 /\ UNCHANGED wait_ret
    /\ UNCHANGED <<gps_frame, gps_is_connected, gps_is_running, gps_pc, data_lock,
                   gps_data, require_3d_fix, gga_nonzero>>

\* the reading thread parsing whatever the receiver sends
ParseNext ==
    \/ GpsConnect
    \/ GpsStart
    \/ \E b \in BOOLEAN : SetRequirements(b)
    \/ \E parts \in Sentences : GpsParse(parts)

SpecParse == Init /\ [][ParseNext]_vars

\* the reading thread and a thread that waits for a fix
GpsNext ==
    \/ GpsConnect
    \/ GpsStart
    \/ WaitForFixCall
    \/ \E elapsed \in BOOLEAN : WaitTest(elapsed)
    \/ WaitHasFix
    \/ \E parts \in GpsFeed : GpsParse(parts)
    \/ GpsEndOfLines
    \/ GpsStatusDue
    \/ GpsReadFault
    \/ GpsErrSleep

\* a thread that can run does run, and its sleeps end
SpecGps ==
    /\ Init
    /\ [][GpsNext]_vars
    /\ WF_vars(\E elapsed \in BOOLEAN : WaitTest(elapsed))
    /\ WF_vars(WaitHasFix)
    /\ WF_vars(GpsEndOfLines)
    /\ WF_vars(GpsStatusDue)
    /\ WF_vars(GpsErrSleep)

---------------------------------------------------------------------------
(* The NMEA validator on a line of the receiver, which may arrive with one *)
(* character replaced                                                      *)

nmea_frame == <<engine_vars, tracker_vars, codec_vars, gps_vars, nav_vars, trend_vars,
                packet_vars>>

\* any line
NmeaInit ==
    /\ EngineInit
    /\ CodecIdle
    /\ GpsIdle
    /\ nmea_sent \in NmeaLines
    /\ nmea_sentence = nmea_sent
    /\ nmea_valid = "none"
    /\ NavIdle
    /\ TrendIdle
    /\ PacketIdle

\* the serial line replaces character i by c
NmeaDamage(i, c) ==
    /\ nmea_valid = "none"
    /\ nmea_sentence = nmea_sent
    /\ i \in 1..Len(nmea_sentence)
    /\ c # nmea_sentence[i]
    /\ nmea_sentence' = [nmea_sentence EXCEPT ![i] = c]
    /\ UNCHANGED <<nmea_frame, nmea_sent, nmea_valid>>

\* _read_gps_data line 346: self._is_valid_nmea(line)
NmeaValidate ==
    /\ nmea_valid = "none"
    /\ nmea_valid' = IF IsValidNmea(nmea_sentence) THEN "true" ELSE "false"
    /\ UNCHANGED <<nmea_frame, nmea_sent, nmea_sentence>>

NmeaNext ==
    \/ \E i \in 1..MaxLine, c \in NmeaChars : NmeaDamage(i, c)
    \/ NmeaValidate

SpecNmea == NmeaInit /\ [][NmeaNext]_vars

---------------------------------------------------------------------------
(* The main loop of the tracker gives the calculator the two positions     *)

nav_frame == <<engine_vars, tracker_vars, codec_vars, gps_vars, nmea_vars, trend_vars,
               packet_vars>>

\* NavigationCalculator._update_calculations with the positions as they are
\* after the caller's assignment; t1 and t2 are what the two time.time()
\* calls of lines 96-97 return
UpdateCalculations(tracker, beacon, t1, t2) ==
    IF tracker # None /\ beacon # None
    THEN /\ distance_history' =
               KeepLatest(Append(distance_history, <<t1, Distance(tracker.at, beacon.at)>>))
         /\ bearing_history' =
               KeepLatest(Append(bearing_history, <<t2, Bearing(tracker.at, beacon.at)>>))
         /\ nav_samples' = Append(nav_samples,
                                  [distance |-> <<t1, Distance(tracker.at, beacon.at)>>,
                                   bearing |-> <<t2, Bearing(tracker.at, beacon.at)>>])
         /\ nav_time' = t2
    ELSE /\ nav_time' = nav_time
         /\ UNCHANGED <<distance_history, bearing_history, nav_samples>>

\* NavigationCalculator.update_tracker_position
UpdateTrackerPosition(p, t1, t2) ==
    /\ nav_time <= t1 /\ t1 <= t2
    /\ tracker_position' = [at |-> p]
    /\ UpdateCalculations([at |-> p], beacon_position, t1, t2)
    /\ UNCHANGED <<nav_frame, beacon_position>>

\* NavigationCalculator.update_beacon_position
UpdateBeaconPosition(p, t1, t2) ==
    /\ nav_time <= t1 /\ t1 <= t2
    /\ beacon_position' = [at |-> p]
    /\ UpdateCalculations(tracker_position, [at |-> p], t1, t2)
    /\ UNCHANGED <<nav_frame, tracker_position>>

\* time.time() does not go back, and at most MaxUpdates samples are taken
NavNext ==
    \E p \in Positions, t1, t2 \in 0..MaxNavTime :
        /\ Len(nav_samples) < MaxUpdates
        /\ t2 <= nav_time + 1
        /\ \/ UpdateTrackerPosition(p, t1, t2)
           \/ UpdateBeaconPosition(p, t1, t2)

SpecNav == Init /\ [][NavNext]_vars

---------------------------------------------------------------------------
(* The bearing trend of a history of the calculator *)

\* a calculator whose updates gave it one of the histories
TrendInit ==
    /\ EngineInit
    /\ CodecIdle
    /\ GpsIdle
    /\ NmeaIdle
    /\ bearing_history \in TrendHistories
    /\ distance_history = [i \in 1..Len(bearing_history) |-> <<bearing_history[i][1], 0>>]
    /\ nav_samples = [i \in 1..Len(bearing_history) |->
                         [distance |-> distance_history[i], bearing |-> bearing_history[i]]]
    /\ tracker_position = IF bearing_history = <<>> THEN None ELSE [at |-> 0]
    /\ beacon_position = tracker_position
    /\ nav_time = IF bearing_history = <<>> THEN 0
                  ELSE bearing_history[Len(bearing_history)][1]
    /\ TrendIdle
    /\ PacketIdle

\* get_navigation_data line 77: self._calculate_bearing_trend()
BearingTrend ==
    /\ bearing_trend = Pending
    /\ bearing_trend' = CalculateBearingTrend(bearing_history)
    /\ UNCHANGED <<engine_vars, tracker_vars, codec_vars, gps_vars, nmea_vars, nav_vars,
                   packet_vars>>

TrendNext == BearingTrend

SpecTrend == TrendInit /\ [][TrendNext]_vars

---------------------------------------------------------------------------
(* A position is encoded as a minimal packet, and the packet is decoded *)

\* any position with the decimals of the packet, and any timestamp
PacketInit ==
    /\ EngineInit
    /\ CodecIdle
    /\ GpsIdle
    /\ NmeaIdle
    /\ NavIdle
    /\ TrendIdle
    /\ packet_args \in [latitude : Latitudes, longitude : Longitudes, timestamp : Timestamps]
    /\ packet_bytes = NoPayload
    /\ packet_decoded = Pending

packet_frame == <<engine_vars, tracker_vars, codec_vars, gps_vars, nmea_vars, nav_vars,
                  trend_vars>>

\* PacketParser.encode_minimal_packet(latitude, longitude, timestamp)
EncodePacket ==
    /\ packet_bytes = NoPayload
    /\ packet_bytes' = EncodeMinimalPacket(packet_args.latitude, packet_args.longitude,
                                            packet_args.timestamp)
    /\ UNCHANGED <<packet_frame, packet_args, packet_decoded>>

\* PacketParser.decode_minimal_packet(packet)
DecodePacket ==
    /\ packet_bytes \notin {NoPayload, Failed}
    /\ packet_decoded = Pending
    /\ packet_decoded' = DecodeMinimalPacket(packet_bytes)
    /\ UNCHANGED <<packet_frame, packet_args, packet_bytes>>

PacketNext == EncodePacket \/ DecodePacket

SpecPacket == PacketInit /\ [][PacketNext]_vars

---------------------------------------------------------------------------
(* Properties of the message ids *)

\* C13: two messages made by send_message in the same second have different
\* ids: no two messages on the TX queue, and no two calls under way, share an
\* id.
C13_IdsDiffer ==
    /\ \A i, j \in 1..Len(tx_queue) : i # j => tx_queue[i].id # tx_queue[j].id
    /\ \A c, d \in Callers : (c # d /\ calls[c] # NullMsg) => calls[c].id # calls[d].id

\* C40: the id of an ack made by _send_ack differs from the id of every
\* other message the engine has made, also from that of another ack made in
\* the same second: no ack waiting on the TX queue shares its id with
\* another message of the queue.
C40_AckIdsDiffer ==
    \A i, j \in 1..Len(tx_queue) :
        (i # j /\ tx_queue[i].type = "ack") => tx_queue[i].id # tx_queue[j].id

---------------------------------------------------------------------------
(* Properties of the sending side *)

\* the TX worker is done with cur in this step: it goes back to tx_queue.get
LeavesMessage == tx_pc \notin {"off", "get"} /\ tx_pc' = "get"

\* C1: when the TX worker is done with an ack-required message whose ack
\* event was never set, the message was counted as failed: tx_errors is one
\* more than when the message was dequeued and tx_packets is as it was.
C1_UnackedCountedFailed ==
    [][(LeavesMessage /\ cur.ack_req /\ ~IsSet(cur.id))
        => /\ stats'["tx_errors"] = stats_at_get[2] + 1
           /\ stats'["tx_packets"] = stats_at_get[1]]_vars

\* C2: when the retry loop gives up an ack-required message that was never
\* acknowledged, every attempt of which ended in an ack wait that expired,
\* and whose worker was not stopped, the message has been transmitted
\* LORA_RETRIES + 1 times and has had LORA_RETRIES + 1 ack waits; and no
\* message is transmitted more often than that.
C2_RetriesPlusOne ==
    /\ tx_count <= LORA_RETRIES + 1
    /\ (tx_pc = "result" /\ cur.ack_req /\ ~success /\ ~stop_event
        /\ ack_waits = retries)
       => /\ tx_count = LORA_RETRIES + 1
          /\ ack_waits = LORA_RETRIES + 1

\* the ack of cur has been processed and the ack wait of the attempt has not
\* expired without it
AckedInTime ==
    /\ tx_pc \in {"ackwait", "attempt", "result"}
    /\ cur.ack_req
    /\ success
    /\ IsSet(cur.id)

\* C3: once the ack of the current message has been processed within the ack
\* wait, the worker keeps the message, transmits it no more, and leaves it
\* only through the result step that adds one to tx_packets and leaves
\* tx_errors alone.
C3_AckedIsTerminal ==
    [][AckedInTime
        => /\ cur' = cur
           /\ tx_count' = tx_count
           /\ tx_pc' \in {"ackwait", "attempt", "result", "ratelimit"}
           /\ tx_pc' = "ratelimit"
              => /\ stats'["tx_packets"] = stats_at_get[1] + 1
                 /\ stats'["tx_errors"] = stats_at_get[2]]_vars

\* C33: once the ack event of the message the TX worker is sending has been
\* set (the message has been transmitted and an ack wait for it has begun),
\* the worker transmits that message no more, also when the event was set by
\* the receive path after the ack wait had expired (during the backoff
\* delay).
C33_AckEndsRetries ==
    [][(/\ tx_pc \in {"attempt", "txpoll", "ackwait", "backoff"}
        /\ cur.ack_req
        /\ ack_waits >= 1
        /\ IsSet(cur.id))
        => tx_count' <= tx_count]_vars

\* C34: the radio is never driven by both workers at once: while the TX
\* worker is between its setTx and its observation of STATUS_TX_DONE, the
\* state of the transmission changes only by the radio finishing it; the
\* receive worker does not switch the radio to receive mode meanwhile.
C34_RadioOneWorkerAtATime ==
    [][(tx_pc = "txpoll" /\ tx_pc' = "txpoll" /\ radio_tx' # radio_tx)
        => (radio_tx = "busy" /\ radio_tx' = "done")]_vars

\* C39: tx_packets + tx_errors counts the messages the TX worker has
\* finished: when the worker is done with a message, exactly one of the two
\* counters is one more than when the message was dequeued, and tx_errors is
\* the one only if the attempts of the message were all used up.
C39_OneCounterPerMessage ==
    [][LeavesMessage
        => /\ stats'["tx_packets"] + stats'["tx_errors"]
                = stats_at_get[1] + stats_at_get[2] + 1
           /\ stats'["tx_errors"] > stats_at_get[2] => retries = LORA_RETRIES]_vars

\* C9: the TX worker takes the head of the queue, messages are put at the
\* tail, and the worker goes back to the queue for the next message only
\* from the inter-transmission delay that follows the result of the
\* previous one.
C9_OneAtATimeInOrder ==
    [][/\ (tx_pc = "get" /\ tx_pc' = "attempt")
          => (cur' = Head(tx_queue) /\ tx_queue' = Tail(tx_queue))
       /\ Len(tx_queue') > Len(tx_queue)
          => SubSeq(tx_queue', 1, Len(tx_queue)) = tx_queue
       /\ LeavesMessage => tx_pc = "ratelimit"]_vars

\* the TX worker has finished cur
FinishedMessage == tx_pc = "ratelimit" \/ (tx_pc \in {"get", "off"} /\ cur # NullMsg)

\* C10: ack_events has no entry for a message the TX worker has finished:
\* every entry is for a message that is on the TX queue or that the worker
\* is sending.
C10_AckEntryDiscarded ==
    /\ FinishedMessage => cur.id \notin DOMAIN ack_events
    /\ \A id \in DOMAIN ack_events :
          \/ \E i \in 1..Len(tx_queue) : tx_queue[i].id = id
          \/ ~FinishedMessage /\ cur.id = id

\* C11: a packet that a worker reads from the radio while the TX worker is
\* in an ack wait, and that is not the ack awaited, is read by the receive
\* worker and given to _process_packet; the TX worker does not take it.
C11_ReceivePathHandlesAll ==
    [][\A p \in InboundPackets :
        (/\ tx_pc = "ackwait"
         /\ ~(p.msg.type = "ack" /\ p.msg.ack_id = cur.id)
         /\ (RxReceive(p) \/ TxAckRead(p)))
        => (stats'["rx_packets"] = stats["rx_packets"] + 1 /\ RxReceive(p))]_vars

---------------------------------------------------------------------------
(* Properties of the codec *)

\* C19: under a key of 16, 24 or 32 bytes, what the beacon engine decodes
\* from the payload its transmit path made for a message is that message.
C19_RoundTrip ==
    (Len(encryption_key) \in AESKeyLengths /\ decoded # Pending) => decoded = wire_msg

\* a message with data was encrypted under a key of each length and decoded
C19_Witness ==
    /\ Len(encryption_key) = AES_block_size + 2
    /\ wire_msg.data # <<>>
    /\ Len(payload) > 2 * AES_block_size
    /\ decoded = wire_msg

\* _process_packet lines 469-471 on the payload `text' under the key: base64
\* decoding, AES-CBC decryption or unpadding fails
DecryptionFails(key, text) ==
    LET data == b64decode(text)
    IN  \/ data = Failed
        \/ LET plain == CbcDecrypt(KeyBytes(key), Take(data, AES_block_size),
                                   Drop(data, AES_block_size))
           IN  plain = Failed \/ unpad(plain) = Failed

\* C37: with an encryption key configured, when decryption of the received
\* payload fails, what the JSON parser is given is the received payload
\* itself, so that the plaintext JSON of an unencrypted sender is parsed to
\* the message that was sent.
C37_FallsBackToRawPayload ==
    (/\ encryption_key # <<>>
     /\ decoded # Pending
     /\ DecryptionFails(encryption_key, payload))
    => decoded = Loads(payload)

\* C20: under the key both ends are configured with, the tracker decodes the
\* payload of the beacon into the message the beacon encoded, and puts it on
\* its rx_queue.
C20_TrackerDecodesBeacon ==
    (encryption_key = DefaultKey /\ trk_decoded # Pending)
    => (trk_decoded = wire_msg /\ trk_rx_queue = <<wire_msg>>)

---------------------------------------------------------------------------
(* Properties of the thread lifecycle *)

\* C15: once stop() has set the stop signal, the receive worker and the TX
\* worker both leave their loops, wherever in an iteration they were.
C15_WorkersLeaveLoops == stop_event ~> (rx_pc = "off" /\ tx_pc = "off")

\* C17: an exception inside an iteration never ends a worker: a worker thread
\* ends only at a test of the stop signal that finds it set, and the sleep that
\* follows a caught exception leads back to the head of the loop.
C17_FaultKeepsWorker ==
    [][/\ (rx_pc # "off" /\ rx_pc' = "off") => stop_event
       /\ tx_threads' < tx_threads => stop_event
       /\ (rx_pc = "errsleep" /\ rx_pc' # rx_pc) => rx_pc' = "run"
       /\ (tx_pc = "errsleep" /\ tx_pc' # tx_pc) => tx_pc' = "get"]_vars

\* the receive worker has read two packets, the processing of one of them
\* raised, and it is running; the TX worker lost its message to an exception
\* (no counter moved) and is back at its queue; the stop signal is clear
C17_Witness ==
    /\ ~stop_event
    /\ stats["rx_errors"] = 1
    /\ stats["rx_packets"] = 2
    /\ rx_pc = "run"
    /\ tx_pc = "get"
    /\ cur # NullMsg
    /\ stats_at_get = <<stats["tx_packets"], stats["tx_errors"]>>

\* C16: when stop() returns while a worker thread is still running, it has
\* not reported the threads as stopped.
C16_LiveWorkerReported ==
    [][(StopReturn /\ (rx_pc # "off" \/ tx_pc # "off")) => stop_ret' # "stopped"]_vars

\* C12: at most one TX worker is alive: start() creates no TX worker next to
\* one that outlived the join of stop().  (There is one receive worker at most
\* by construction: rx_pc is the position of the only receive thread, and
\* start creates threads only when that thread is not alive.)
C12_OneWorkerEach ==
    [][(tx_threads' = tx_threads + 1 /\ OutlivesJoin) => tx_threads = 0]_vars

---------------------------------------------------------------------------
(* Properties of the two-node link *)

\* C5: an ack-required message of the beacon that the tracker has received,
\* and no transmission of which failed at the beacon's radio, does not end as
\* failed: when the TX worker has its result, the message was acknowledged
\* and counted in tx_packets.
C5_ReceivedEndsAcked ==
    (tx_pc = "ratelimit" /\ cur.ack_req /\ cur.id \in trk_seen /\ ack_waits >= retries)
    => (success /\ stats["tx_packets"] = stats_at_get[1] + 1)

---------------------------------------------------------------------------
(* Properties of the receiving side *)

\* C18: a packet the receive worker reads that does not decrypt or parse to a
\* message is dropped (no handler, no rx_queue entry, no ack), the worker stays
\* in its loop, and rx_errors goes up by exactly one.
C18_UndecodableCountedOnce ==
    [][\A p \in InboundPackets :
        (DecodedJson(p) # "object" /\ RxReceive(p))
        => /\ stats'["rx_errors"] = stats["rx_errors"] + 1
           /\ UNCHANGED <<handled, rx_queue, tx_queue, ack_events>>
           /\ rx_pc' = "run"]_vars

\* this step is the receive worker reading the packet p and _process_packet
\* decoding it to a message
Processes(p) ==
    /\ DecodedJson(p) = "object"
    /\ stats'["rx_errors"] = stats["rx_errors"]
    /\ RxReceive(p)

\* this step is one of the two workers reading the packet p from the radio
\* and parsing it to a message
Reads(p) == Processes(p) \/ (RawJson(p) = "object" /\ TxAckRead(p))

\* C4: when the receive path processes a message that is not an ack, is for
\* this node or for broadcast and has ack_req set, and the TX queue is not
\* full, the TX queue grows by exactly one message, put at its tail: an ack
\* with ack_id the inbound id, dst the inbound src, and ack_req false.
C4_AckEnqueued ==
    [][\A p \in InboundPackets :
        (/\ p.msg.type # "ack"
         /\ p.msg.dst \in {TRACKER_ID, Broadcast}
         /\ p.msg.ack_req
         /\ Len(tx_queue) < LORA_MESSAGE_QUEUE_SIZE
         /\ Processes(p))
        => /\ Len(tx_queue') = Len(tx_queue) + 1
           /\ SubSeq(tx_queue', 1, Len(tx_queue)) = tx_queue
           /\ LET ack == tx_queue'[Len(tx_queue')] IN
                /\ ack.type = "ack"
                /\ ack.ack_id = p.msg.id
                /\ ack.dst = p.msg.src
                /\ ~ack.ack_req]_vars

\* an ack for the broadcast command of the other node is on the TX queue
C4_Witness ==
    \E i \in 1..Len(tx_queue) :
        /\ tx_queue[i].type = "ack"
        /\ tx_queue[i].ack_id = RemoteId(OtherNode)
        /\ tx_queue[i].dst = OtherNode
        /\ rx_queue # <<>>

\* C35: whenever the engine enqueues an ack for an inbound message, that
\* message is delivered in the same pass of _process_packet: a handler is
\* started for it or it is placed on rx_queue.  A message dropped because
\* rx_queue is full and no handler is registered for its type gets no ack.
C35_AckMeansDelivered ==
    [][(/\ Len(tx_queue') = Len(tx_queue) + 1
        /\ tx_queue'[Len(tx_queue')].type = "ack")
        => \/ handled' # handled
           \/ Len(rx_queue') = Len(rx_queue) + 1]_vars

\* C36: a send_message call that is rejected (it returns None: the engine is
\* not connected, or the TX queue is full) leaves the engine as it was: no
\* pending-ack entry is registered, and the message-id counter, the TX queue
\* and the statistics are those of before the call.
C36_RejectedSendChangesNothing ==
    [][\A k \in SendKinds :
        (SendMessage(k[1], k[2]) /\ send_ret' = "none")
        => UNCHANGED <<ack_events, message_id_counter, tx_queue, stats>>]_vars

\* C38: an inbound message that its sender retransmits is given to its
\* handler at most once: when a copy of a message that asks for an ack has
\* been received and a handler has been started for it, a step that
\* processes another copy of it starts no handler.
C38_HandledAtMostOnce ==
    [][\A p \in PacketsOf(InboundCommands) :
        (/\ p.msg.ack_req
         /\ handled[p.msg.src] >= 1
         /\ \E i \in 1..Len(rx_queue) : rx_queue[i] = p.msg
         /\ Processes(p))
        => handled' = handled]_vars

\* C6: a step that reads an ack for this node or for broadcast starts no
\* handler, puts nothing on rx_queue or the TX queue, and changes no entry
\* of ack_events but the one whose id is the ack_id; the receive path sets
\* that entry; and when no entry has that id, nothing of the engine changes
\* but the statistics.
C6_AckOnlyResolves ==
    [][\A p \in InboundPackets :
        (p.msg.type = "ack" /\ p.msg.dst \in {TRACKER_ID, Broadcast} /\ Reads(p))
        => /\ UNCHANGED <<handled, rx_queue, tx_queue>>
           /\ DOMAIN ack_events' = DOMAIN ack_events
           /\ \A id \in DOMAIN ack_events :
                 ack_events'[id] # ack_events[id] => id = p.msg.ack_id
           /\ (Processes(p) /\ p.msg.ack_id \in DOMAIN ack_events)
                 => ack_events'[p.msg.ack_id]
           /\ p.msg.ack_id \notin DOMAIN ack_events
                 => UNCHANGED <<lifecycle, tx_queue, rx_queue, message_callbacks,
                                ack_events, message_id_counter, tx_locals, radio_tx,
                                handled, send_ret, calls>>]_vars

\* the receive path has read one packet, a handler for acks is registered,
\* and the event of a message that is still queued is set
C6_Witness ==
    /\ stats["rx_packets"] = 1
    /\ "ack" \in message_callbacks
    /\ rx_queue = <<>>
    /\ \E i \in 1..Len(tx_queue) : IsSet(tx_queue[i].id)

\* C7: a step that reads a message whose dst is neither this node nor
\* broadcast starts no handler, puts nothing on rx_queue or the TX queue and
\* sets no ack event.
C7_OtherDestinationDropped ==
    [][\A p \in InboundPackets :
        (p.msg.dst \notin {TRACKER_ID, Broadcast} /\ Reads(p))
        => UNCHANGED <<handled, rx_queue, tx_queue, ack_events>>]_vars

\* C8: the TX queue never holds more than LORA_MESSAGE_QUEUE_SIZE messages,
\* and a send_message call of a connected engine whose TX queue is full
\* returns None and leaves the queue as it was.
C8_QueueBounded ==
    /\ [](Len(tx_queue) <= LORA_MESSAGE_QUEUE_SIZE)
    /\ [][\A k \in SendKinds :
            (SendMessage(k[1], k[2]) /\ connected
             /\ Len(tx_queue) = LORA_MESSAGE_QUEUE_SIZE)
            => (send_ret' = "none" /\ tx_queue' = tx_queue)]_vars

\* the one send_message call of the connected engine found the queue full
C8_Witness ==
    /\ connected
    /\ message_id_counter = 1
    /\ send_ret = "none"
    /\ Len(tx_queue) = LORA_MESSAGE_QUEUE_SIZE

---------------------------------------------------------------------------
(* Properties of the GPS module *)

\* C21: wait_for_fix always returns: a call under way leads to the call
\* having returned (True with a fix, False when the timeout passed).
C21_WaitForFixReturns == (wait_pc # "idle") ~> (wait_pc = "idle")

\* C23: GGA is authoritative for the satellite count: once a GGA sentence
\* has reported a count other than 0, no GSV sentence parsed later changes
\* gps_data['satellites'].
C23_GgaAuthoritative ==
    [][\A parts \in GsvSentences :
          (gga_nonzero /\ GpsParse(parts)) => gps_data'.satellites = gps_data.satellites]_vars

\* the sentence starts with '$', has one '*', and the digits after the '*'
\* are the XOR of the characters between the two
ChecksumMatches(sentence) ==
    /\ sentence # <<>>
    /\ Head(sentence) = Chr.dollar
    /\ \E k \in 2..Len(sentence) :
          /\ Stars(sentence) = {k}
          /\ k < Len(sentence)
          /\ \A i \in (k + 1)..Len(sentence) : sentence[i] \in HexDigits
          /\ DigitsValue(SubSeq(sentence, k + 1, Len(sentence)))
               = Checksum(SubSeq(sentence, 2, k - 1))

\* the line given to the validator is the sent one with one character
\* between '$' and '*' replaced
DataDamaged ==
    /\ nmea_sentence # nmea_sent
    /\ \E k \in Stars(nmea_sent), i \in 2..Len(nmea_sent) :
          i < k /\ nmea_sentence[i] # nmea_sent[i]

\* C24: _is_valid_nmea returns true for every sentence that starts with '$',
\* has at least 5 characters and carries the checksum of its data; and it
\* returns false for such a sentence with one character between '$' and '*'
\* replaced by another one and the checksum left as it was.
C24_ChecksumDecides ==
    nmea_valid # "none" =>
        /\ (Len(nmea_sentence) >= MinSentence /\ ChecksumMatches(nmea_sentence))
              => nmea_valid = "true"
        /\ (Len(nmea_sent) >= MinSentence /\ ChecksumMatches(nmea_sent) /\ DataDamaged)
              => nmea_valid = "false"

\* a sentence with a matching checksum was damaged between '$' and '*' and
\* the validator turned it down
C24_Witness ==
    /\ nmea_valid = "false"
    /\ Len(nmea_sent) >= MinSentence
    /\ ChecksumMatches(nmea_sent)
    /\ DataDamaged

\* C25: an RMC sentence whose status is not 'A' updates time and date only:
\* latitude, longitude, speed, course and every other field of gps_data keep
\* their values.
C25_VoidRmcKeepsPosition ==
    [][\A parts \in RmcSentences :
          (Part(parts, 2) # <<Letter.A>> /\ GpsParse(parts)) =>
              /\ \A field \in DOMAIN gps_data \ {"time", "date"} :
                    gps_data'[field] = gps_data[field]
              /\ gps_data'.time = IF Part(parts, 1) # <<>> THEN Part(parts, 1)
                                  ELSE gps_data.time
              /\ gps_data'.date = Part(parts, 9)]_vars

\* a void RMC sentence was parsed after a GGA sentence had set the position:
\* the time is the RMC sentence's, the latitude still the northern one of
\* the GGA sentence, and no active RMC sentence has set speed or course
C25_Witness ==
    /\ gps_data.time = Text1
    /\ gps_data.date = Text1
    /\ gps_data.latitude # None
    /\ gps_data.latitude.negative = FALSE
    /\ gps_data.speed = None
    /\ gps_data.course = None

\* the numeric fields of a sentence, each with its text and with the number
\* of degree digits of a coordinate (0 for a plain number)
NumericFields(parts) ==
    CASE Part(parts, 0) = "GPGGA" /\ Len(parts) >= 15 ->
            {<<"latitude", Part(parts, 2), 2>>, <<"longitude", Part(parts, 4), 3>>,
             <<"fix_quality", Part(parts, 6), 0>>, <<"satellites", Part(parts, 7), 0>>,
             <<"hdop", Part(parts, 8), 0>>, <<"altitude", Part(parts, 9), 0>>}
      [] Part(parts, 0) = "GPRMC" /\ Len(parts) >= 12 ->
            {<<"latitude", Part(parts, 3), 2>>, <<"longitude", Part(parts, 5), 3>>,
             <<"speed", Part(parts, 7), 0>>, <<"course", Part(parts, 8), 0>>}
      [] Part(parts, 0) = "GPGSV" /\ Len(parts) >= 4 ->
            {<<"satellites", Part(parts, 3), 0>>}
      [] Part(parts, 0) = "GPGSA" /\ Len(parts) >= 18 ->
            {<<"fix_type", Part(parts, 2), 0>>, <<"pdop", Part(parts, 15), 0>>,
             <<"hdop", Part(parts, 16), 0>>}
      [] OTHER -> {}

\* the text of the field is there and is no number
FailsNumeric(f) ==
    /\ f[2] # <<>>
    /\ IF f[3] = 0 THEN ~IsDigits(f[2])
       ELSE ~IsDigits(Take(f[2], f[3])) \/ ~IsDigits(Drop(f[2], f[3]))

\* the sentences with a field that fails numeric parsing, and that field
BadFields ==
    UNION {{[parts |-> parts, field |-> f[1]] : f \in {g \in NumericFields(parts) : FailsNumeric(g)}} :
             parts \in Sentences}

\* what gps_data may hold
GpsData ==
    [latitude : {None} \cup [deg : Nat, min : Nat, negative : BOOLEAN],
     longitude : {None} \cup [deg : Nat, min : Nat, negative : BOOLEAN],
     altitude : {None} \cup [value : Nat],
     speed : {None} \cup [value : Nat],
     course : {None} \cup [value : Nat],
     satellites : Nat, fix_quality : Nat, hdop : Nat, pdop : Nat, fix_type : Nat,
     time : Seq(Nat) \cup {NoText}, date : Seq(Nat) \cup {NoText}, valid : BOOLEAN]

\* C26: a GGA, RMC, GSA or GSV field that fails numeric parsing leaves its
\* gps_data value as it was, and the parser returns normally for every
\* sentence: in every state the parser gives well-formed gps_data for each
\* sentence.
C26_BadFieldKeepsValue ==
    /\ [][\A bad \in BadFields :
             gps_data'[bad.field] # gps_data[bad.field] => ~GpsParse(bad.parts)]_vars
    /\ [](\A parts \in Sentences : ParseNmea(gps_data, parts) \in GpsData)

\* a GGA sentence whose fix field is no number was parsed, and no other GGA
\* sentence: the altitude is set and fix_quality is still the constructor's
C26_Witness ==
    /\ gps_data.altitude # None
    /\ gps_data.fix_quality = 0

\* the first check that fails, in the order no position data, too few
\* satellites, HDOP too high, no 3D fix
FirstFailingCheck(d, need_3d) ==
    IF d.latitude = None \/ d.longitude = None THEN "No position data"
    ELSE IF d.satellites < GPS_MIN_SATELLITES THEN "Too few satellites"
    ELSE IF d.hdop > GPS_MIN_HDOP THEN "HDOP too high"
    ELSE IF need_3d /\ d.fix_type < 3 THEN "No 3D fix"
    ELSE "none"

\* C27: the fix evaluator reports no fix whenever there are fewer satellites
\* than min_satellites, whatever the HDOP, and for every state without a fix
\* the reported reason is the first failing check.
C27_ReasonIsFirstFailingCheck ==
    /\ gps_data.satellites < GPS_MIN_SATELLITES => ~HasFix(gps_data, require_3d_fix)
    /\ ~HasFix(gps_data, require_3d_fix) =>
          Reason(gps_data, require_3d_fix) = FirstFailingCheck(gps_data, require_3d_fix)

\* C32: the GPS reading thread never blocks on its own lock: it is never at
\* the acquire of _update_gps_status (line 628) while it holds data_lock
\* itself, the state in which the iteration cannot complete and no getter
\* of another thread can acquire data_lock any more.
C32_NeverWaitsForItself == ~(gps_pc = "update" /\ data_lock = "gps")

---------------------------------------------------------------------------
(* Properties of the navigation calculator *)

\* the last samples of those appended so far
LatestSamples(kind) ==
    LET n == Len(nav_samples)
        k == IF n > max_history_size THEN max_history_size ELSE n
    IN  [i \in 1..k |-> nav_samples[n - k + i][kind]]

OrderedByTime(history) ==
    \A i, j \in 1..Len(history) : i < j => history[i][1] <= history[j][1]

RawBearings == [i \in 1..Len(bearing_history) |-> bearing_history[i][2]]

\* a slope greater than 0
Positive(slope) ==
    /\ slope # None
    /\ (slope.num > 0 /\ slope.den > 0) \/ (slope.num < 0 /\ slope.den < 0)

\* C29: each unwrapped bearing differs from its predecessor by the signed
\* shortest-path delta, which lies in [-180, 180) and is congruent to the raw
\* difference modulo 360; and the bearings 359, 1, 3 at equal time spacing
\* give a trend greater than 0.
C29_WrapRegressedUpward ==
    bearing_trend # Pending =>
        /\ LET raw == LastPoints(bearing_history)
               points == Unwrap(raw)
           IN  \A i \in 2..Len(points) :
                  /\ points[i][2] - points[i - 1][2] \in -180..179
                  /\ (points[i][2] - points[i - 1][2]) % 360
                        = (raw[i][2] - raw[i - 1][2]) % 360
        /\ RawBearings = <<359, 1, 3>> => Positive(bearing_trend)

---------------------------------------------------------------------------
(* Properties of the minimal packet *)

\* C30: for every latitude and longitude given to the packet's decimals (a
\* whole number of micro-degrees that fits the packed integer) and every
\* timestamp, here one that fits the signed integer of the packet, the
\* packet has exactly 12 bytes and decoding it returns the latitude,
\* longitude and timestamp that were encoded.
C30_MinimalRoundTrip ==
    packet_args.timestamp \in SignedInts =>
        /\ packet_bytes # NoPayload =>
              (packet_bytes # Failed /\ Len(packet_bytes) = PacketLength)
        /\ packet_decoded # Pending => packet_decoded = packet_args

\* C31: the timestamp of the minimal packet is an unsigned integer of
\* BytesPerInt bytes: every timestamp from 0 to IntRange - 1 is encoded
\* without an error, and decoding returns that same non-negative timestamp.
C31_TimestampUnsigned ==
    packet_args.timestamp \in 0..(IntRange - 1) =>
        /\ packet_bytes # NoPayload => packet_bytes # Failed
        /\ packet_decoded # Pending =>
              /\ packet_decoded.timestamp = packet_args.timestamp
              /\ packet_decoded.timestamp >= 0

====
